---- MODULE Spec2Model ----
(***************************************************************************)
(* A model of the libslirp NAT network transport driver                    *)
(* (src/VBox/Devices/Network/DrvNATlibslirp.cpp): the NAT poll thread, the *)
(* engine request queue, the guest transmit path, the receive path, the    *)
(* wakeup pipe and the management entry points.                            *)
(***************************************************************************)
EXTENDS Integers, Naturals, Sequences, FiniteSets, TLC

(* ------------------------------------------------------------------ *)
(* Program constants                                                   *)
(* ------------------------------------------------------------------ *)
DRVNAT_MAXFRAMESIZE == 16384
SgAlign == 128
DrainChunk == 1024

(* ------------------------------------------------------------------ *)
(* Bounds of the model                                                 *)
(* ------------------------------------------------------------------ *)
MaxBufs == 1
MaxQueue == 2
MaxPipe == 2
MaxSuspends == 1
MaxEmtOps == 1
MaxPkts == 2

(* ------------------------------------------------------------------ *)
(* Input domains                                                       *)
(* ------------------------------------------------------------------ *)
GuestThreads == {"g1", "g2"}
\* threads that call notify() on their own account
Notifiers == {"n1", "n2"}
NoThread == "none"
LinkStates == {"UP", "DOWN", "DOWN_RESUME"}

\* A GSO descriptor as far as the driver reads it: the validity of its type
\* and offsets (fTypeOk), cbHdrsTotal and cbMaxSeg.
NoGso == [present |-> FALSE, fTypeOk |-> FALSE, cbHdrsTotal |-> 0, cbMaxSeg |-> 0]
GsoSmall == [present |-> TRUE, fTypeOk |-> TRUE, cbHdrsTotal |-> 54, cbMaxSeg |-> 1400]
GsoBad == [present |-> TRUE, fTypeOk |-> FALSE, cbHdrsTotal |-> 54, cbMaxSeg |-> 1400]
GsoJumbo == [present |-> TRUE, fTypeOk |-> TRUE, cbHdrsTotal |-> 54, cbMaxSeg |-> 9000]
GsoLimit == [present |-> TRUE, fTypeOk |-> TRUE, cbHdrsTotal |-> 54, cbMaxSeg |-> 16329]
GsoHuge == [present |-> TRUE, fTypeOk |-> TRUE, cbHdrsTotal |-> 54, cbMaxSeg |-> 16330]
\* alloc requests <<cbMin, pGso>> the device port makes
AllocRequests ==
    { <<60, NoGso>>, <<16384, NoGso>>,
      <<17000, GsoJumbo>>, <<2854, GsoBad>>, <<2854, GsoHuge>> }

\* which RTMemAlloc of an alloc call fails, if any
AllocFailures == {"none", "desc", "seg", "user"}

VARIABLES
    natState,         \* pThis->pSlirpThread->enmState
    natPc,            \* where the NAT thread is in drvNATAsyncIoThread
    natReq,           \* the request the NAT thread is executing
    natSeg,           \* iSeg of the send worker's segmentation loop
    enmLinkState,     \* pThis->enmLinkState
    enmLinkStateWant, \* pThis->enmLinkStateWant
    hSlirpReqQueue,   \* pending requests of the engine queue, oldest first
    bufs,             \* the S/G buffers allocated so far, by identifier
    heapLive,         \* number of heap blocks allocated and not freed
    XmitLock,         \* owner of the transmit lock
    cBufsAtBegin,     \* buffers that existed at the begin_xmit in progress
    gPc,              \* per guest thread: position in the transmit sequence
    gBuf,             \* per guest thread: the buffer it holds or submitted
    gRc,              \* per guest thread: status of its last call
    inputs,           \* slirp_input calls made: <<buffer, length>>
    cbWakeupNotifs,   \* pThis->cbWakeupNotifs
    pipe,             \* bytes held by the wakeup pipe
    revents0,         \* polls[0].revents has a readable bit
    drainCb,          \* the drain's local copy of cbWakeupNotifs / cbRead
    supPc,            \* supervisor (PDM thread control)
    cSuspends,        \* suspensions so far
    emtPc,            \* management thread position
    emtArg,           \* argument of the management call in progress
    emtReq,           \* state of the management thread's awaitable request
    cEmtOps,          \* management calls so far
    hostfwd,          \* add/remove_hostfwd calls the engine received
    cPkts,            \* pThis->cPkts
    hRecvReqQueue,    \* pending requests of the receive queue
    cbPc,             \* position inside drvNAT_SendPacketCb
    cCallbacks,       \* send-to-guest callbacks started so far
    pktLive,          \* packet copies allocated and not freed
    recvPc,           \* receive thread position
    recvReq,          \* the packet the receive worker is delivering
    recvState,        \* pThis->pRecvThread->enmState
    EventRecv,        \* the receive event is signalled
    DevAccessLock,    \* the device-access lock is held
    delivered,        \* packets handed to the device port's receive
    accepted,         \* packets for which drvNAT_SendPacketCb returned cb
    dropped,          \* packets whose worker's pfnWaitReceiveAvail failed
    nPc,              \* per notifying thread: position in drvNATNotifyNATThread
    fWindows,         \* the build is the RT_OS_WINDOWS one
    evSlirp,          \* engine poll flags handed to drvNAT_AddPollCb
    evHost,           \* polls[idx].events / .revents of that entry
    evBack,           \* engine poll flags drvNAT_GetREventsCb returned
    cChangedFDs,      \* the poll round's cChangedFDs
    uTimeout,         \* the poll round's uTimeout / msTimeout
    nowMs,            \* RTTimeNanoTS() / 1000000 at this moment
    timers,           \* the SlirpTimer nodes, by address
    pTimerHead,       \* pNATState->pTimerHead (0 is NULL)
    pCurrent,         \* pCurrent of the list walk in progress
    currTime,         \* currTime of the list walk in progress
    cTimerOps,        \* timer callbacks the engine made so far
    tmUaf,            \* the walks that read a freed node
    cBufsMax,         \* buffers the device threads ask for in this run
    cPktsMax,         \* packets the engine has for the guest in this run
    cFdsMax,          \* descriptors the engine registers per round in this run
    allocAsk,         \* alloc requests the device port makes in this run
    nsock,            \* pNATState->nsock
    uPollCap,         \* pNATState->uPollCap
    polls0            \* pNATState->polls[0]: fd and events

vars == << natState, natPc, natReq, natSeg, enmLinkState, enmLinkStateWant,
           hSlirpReqQueue, bufs, heapLive, XmitLock, cBufsAtBegin, gPc, gBuf, gRc,
           inputs, cbWakeupNotifs, pipe, revents0, drainCb, supPc, cSuspends,
           emtPc, emtArg, emtReq, cEmtOps, hostfwd, cPkts, hRecvReqQueue,
           cbPc, cCallbacks, pktLive, recvPc, recvReq, recvState,
           EventRecv, DevAccessLock, delivered, accepted, dropped, nPc,
           fWindows, evSlirp, evHost, evBack, cChangedFDs, uTimeout, nowMs,
           timers, pTimerHead, pCurrent, currTime, cTimerOps, tmUaf,
           cBufsMax, cPktsMax, cFdsMax, allocAsk, nsock, uPollCap, polls0 >>

\* variable groups, for UNCHANGED
natVars == << natPc, natReq, natSeg >>
linkVars == << enmLinkState, enmLinkStateWant >>
bufVars == << bufs, heapLive >>
guestVars == << XmitLock, cBufsAtBegin, gPc, gBuf, gRc >>
wakeVars == << cbWakeupNotifs, pipe, nPc >>
drainVars == << revents0, drainCb >>
supVars == << supPc, cSuspends >>
emtVars == << emtPc, emtArg, emtReq, cEmtOps >>
hostVars == << fWindows, evSlirp, evHost, evBack >>
pollVars == << cChangedFDs, uTimeout >>
sockVars == << nsock, uPollCap, polls0 >>
tmVars == << nowMs, timers, pTimerHead, pCurrent, currTime, cTimerOps, tmUaf >>
recvVars == << cPkts, hRecvReqQueue, cbPc, cCallbacks, pktLive, recvPc,
               recvReq, recvState, EventRecv, DevAccessLock, delivered,
               accepted, dropped >>

Min(a, b) == IF a < b THEN a ELSE b

Range(q) == {q[i] : i \in 1..Len(q)}


(* ------------------------------------------------------------------ *)
(* Scatter/gather buffers                                              *)
(* ------------------------------------------------------------------ *)
\* RT_ALIGN_Z going to the next multiple also from a multiple.
RT_ALIGN_Z_Next(cb, uAlign) == ((cb \div uAlign) + 1) * uAlign

\* RT_ALIGN_Z(cb, uAlign): cb rounded up to a multiple of uAlign
RT_ALIGN_Z(cb, uAlign) == ((cb + uAlign - 1) \div uAlign) * uAlign

\* The buffer drvNATNetworkUp_AllocBuf returns on success.
NewSgBuf(cbMin, gso) ==
    [ cbMin |-> cbMin, gso |-> gso,
      pvAllocator |-> ~gso.present, pvUser |-> gso.present,
      cbSeg |-> RT_ALIGN_Z(cbMin, SgAlign), cbUsed |-> 0,
      cbAvailable |-> RT_ALIGN_Z(cbMin, SgAlign),
      fOwner1 |-> TRUE, fSent |-> FALSE,
      segFrees |-> 0, userFrees |-> 0, descFrees |-> 0 ]

\* AllocBufRc with the size test of a GSO request made on cbMin.
AllocBufRc_GsoMinBytes(fRunning, cbMin, gso, fDescOk, fSegOk, fUserOk) ==
    IF ~fRunning THEN "VERR_NET_DOWN"
    ELSE IF ~fDescOk THEN "VERR_NO_MEMORY"
    ELSE IF cbMin >= DRVNAT_MAXFRAMESIZE THEN "VERR_INVALID_PARAMETER"
    ELSE IF ~fSegOk \/ (gso.present /\ ~fUserOk) THEN "VERR_TRY_AGAIN"
    ELSE "VINF_SUCCESS"

\* AllocBufRc without the size test of an ordinary request.
AllocBufRc_NoOrdinaryTest(fRunning, cbMin, gso, fDescOk, fSegOk, fUserOk) ==
    IF ~fRunning THEN "VERR_NET_DOWN"
    ELSE IF ~fDescOk THEN "VERR_NO_MEMORY"
    ELSE IF gso.present /\ gso.cbHdrsTotal + gso.cbMaxSeg >= DRVNAT_MAXFRAMESIZE
         THEN "VERR_INVALID_PARAMETER"
    ELSE IF ~fSegOk \/ (gso.present /\ ~fUserOk) THEN "VERR_TRY_AGAIN"
    ELSE "VINF_SUCCESS"

\* AllocBufRc refusing with VERR_NET_DOWN also while the link is not UP.
AllocBufRc_LinkDown(fRunning, cbMin, gso, fDescOk, fSegOk, fUserOk) ==
    IF ~fRunning \/ enmLinkState # "UP" THEN "VERR_NET_DOWN"
    ELSE IF ~fDescOk THEN "VERR_NO_MEMORY"
    ELSE IF (~gso.present /\ cbMin >= DRVNAT_MAXFRAMESIZE)
            \/ (gso.present /\ gso.cbHdrsTotal + gso.cbMaxSeg >= DRVNAT_MAXFRAMESIZE)
         THEN "VERR_INVALID_PARAMETER"
    ELSE IF ~fSegOk \/ (gso.present /\ ~fUserOk) THEN "VERR_TRY_AGAIN"
    ELSE "VINF_SUCCESS"

\* AllocBufRc refusing a GSO request only above DRVNAT_MAXFRAMESIZE.
AllocBufRc_GsoAbove(fRunning, cbMin, gso, fDescOk, fSegOk, fUserOk) ==
    IF ~fRunning THEN "VERR_NET_DOWN"
    ELSE IF ~fDescOk THEN "VERR_NO_MEMORY"
    ELSE IF (~gso.present /\ cbMin >= DRVNAT_MAXFRAMESIZE)
            \/ (gso.present /\ gso.cbHdrsTotal + gso.cbMaxSeg > DRVNAT_MAXFRAMESIZE)
         THEN "VERR_INVALID_PARAMETER"
    ELSE IF ~fSegOk \/ (gso.present /\ ~fUserOk) THEN "VERR_TRY_AGAIN"
    ELSE "VINF_SUCCESS"

\* Status of an alloc call: the NAT thread state it reads, the requested size,
\* the GSO descriptor, and whether each RTMemAlloc succeeds.
AllocBufRc(fRunning, cbMin, gso, fDescOk, fSegOk, fUserOk) ==
    IF ~fRunning THEN "VERR_NET_DOWN"
    ELSE IF ~fDescOk THEN "VERR_NO_MEMORY"
    ELSE IF ~gso.present
         THEN IF cbMin >= DRVNAT_MAXFRAMESIZE THEN "VERR_INVALID_PARAMETER"
              ELSE IF ~fSegOk THEN "VERR_TRY_AGAIN"
              ELSE "VINF_SUCCESS"
         ELSE IF gso.cbHdrsTotal + gso.cbMaxSeg >= DRVNAT_MAXFRAMESIZE
                  THEN "VERR_INVALID_PARAMETER"
              ELSE IF ~fUserOk \/ ~fSegOk THEN "VERR_TRY_AGAIN"
              ELSE "VINF_SUCCESS"

\* Heap blocks an alloc call leaves allocated when it returns rc.
AllocBufBlocks(rc, gso) ==
    IF rc = "VINF_SUCCESS" THEN (IF gso.present THEN 3 ELSE 2) ELSE 0

\* Heap blocks drvNATFreeSgBuf releases for buffer record b.
FreeSgBufBlocks(b) ==
    (IF b.pvAllocator THEN 1 ELSE IF b.pvUser THEN 2 ELSE 0) + 1

\* drvNATFreeSgBuf applied to buffer record b.
FreeSgBufRec(b) ==
    [ b EXCEPT !.fOwner1 = FALSE,
               !.segFrees = @ + (IF b.pvAllocator \/ b.pvUser THEN 1 ELSE 0),
               !.userFrees = @ + (IF ~b.pvAllocator /\ b.pvUser THEN 1 ELSE 0),
               !.pvUser = IF b.pvAllocator THEN @ ELSE FALSE,
               !.descFrees = @ + 1 ]

\* drvNATFreeSgBuf(pThis, pSgBuf) on buffer table B and the heap counter.
drvNATFreeSgBuf(B, id) ==
    /\ bufs' = [B EXCEPT ![id] = FreeSgBufRec(B[id])]
    /\ heapLive' = heapLive - FreeSgBufBlocks(B[id])

(* ------------------------------------------------------------------ *)
(* Wakeup pipe                                                         *)
(* ------------------------------------------------------------------ *)
\* RTPipeWrite of one byte: it succeeds while the pipe has room.
PipeWriteOk == pipe < MaxPipe

\* drvNATNotifyNATThread as one step (the write and, after a good write, the
\* increment), for the callers whose own logic does not read the counter.
\* NotifierWrite/NotifierInc below take the two operations apart.
drvNATNotifyNATThread ==
    IF PipeWriteOk
    THEN /\ pipe' = pipe + 1
         /\ cbWakeupNotifs' = cbWakeupNotifs + 1
    ELSE UNCHANGED << pipe, cbWakeupNotifs >>

\* drvNATNotifyNATThread on a thread n, operation by operation:
\* rc = RTPipeWrite(hPipeWrite, "", 1, &cbIgnored)
NotifierWrite(n) ==
    /\ nPc[n] = "idle"
    /\ IF PipeWriteOk
       THEN /\ pipe' = pipe + 1
            /\ nPc' = [nPc EXCEPT ![n] = "inc"]
       ELSE UNCHANGED << pipe, nPc >>
    /\ UNCHANGED << natState, natVars, linkVars, hSlirpReqQueue, bufVars,
                    guestVars, inputs, cbWakeupNotifs, drainVars, supVars,
                    emtVars, hostfwd, hostVars, cBufsMax, cPktsMax, cFdsMax, allocAsk, pollVars, sockVars, tmVars, recvVars >>

\* if (RT_SUCCESS(rc)) ASMAtomicIncU64(&pThis->cbWakeupNotifs)
NotifierInc(n) ==
    /\ nPc[n] = "inc"
    /\ cbWakeupNotifs' = cbWakeupNotifs + 1
    /\ nPc' = [nPc EXCEPT ![n] = "idle"]
    /\ UNCHANGED << natState, natVars, linkVars, hSlirpReqQueue, bufVars,
                    guestVars, inputs, pipe, drainVars, supVars, emtVars,
                    hostfwd, hostVars, cBufsMax, cPktsMax, cFdsMax, allocAsk, pollVars, sockVars, tmVars, recvVars >>

(* ------------------------------------------------------------------ *)
(* Engine request queue                                                *)
(* ------------------------------------------------------------------ *)
NoRule == [fRemove |-> FALSE, fUdp |-> FALSE, pHostIp |-> "-", u16HostPort |-> 0,
           pGuestIp |-> "-", u16GuestPort |-> 0]
SendReq(id) == [fn |-> "send", buf |-> id, link |-> "-", rule |-> NoRule]
LinkReq(s) == [fn |-> "link", buf |-> 0, link |-> s, rule |-> NoRule]
PfReq(r) == [fn |-> "pf", buf |-> 0, link |-> "-", rule |-> r]
NoReq == [fn |-> "none", buf |-> 0, link |-> "-", rule |-> NoRule]

\* RTReqQueueCallEx can take the request: the queue has room.
QueueHasRoom(q) == Len(q) < MaxQueue

(* ------------------------------------------------------------------ *)
(* Transmit path, on a guest device thread g                           *)
(* ------------------------------------------------------------------ *)
\* RTCritSectTryEnter(&pThis->XmitLock) for thread g
TryEnterOk(g) == XmitLock = NoThread

\* drvNATNetworkUp_BeginXmit taking the status of RTCritSectTryEnter for a
\* success whatever it is.
BeginXmit_IgnoreRc(g) ==
    /\ gPc[g] = "idle"
    /\ XmitLock' = g
    /\ cBufsAtBegin' = Len(bufs)
    /\ gPc' = [gPc EXCEPT ![g] = "xmit"]
    /\ gRc' = [gRc EXCEPT ![g] = "VINF_SUCCESS"]
    /\ UNCHANGED << natState, natVars, linkVars, hSlirpReqQueue, bufVars, gBuf,
                    inputs, wakeVars, drainVars, supVars, emtVars, hostfwd, hostVars, cBufsMax, cPktsMax, cFdsMax, allocAsk, pollVars, sockVars, tmVars,
                    recvVars >>

drvNATNetworkUp_BeginXmit(g) ==
    /\ gPc[g] = "idle"
    /\ IF TryEnterOk(g)
       THEN /\ XmitLock' = g
            /\ cBufsAtBegin' = Len(bufs)
            /\ gPc' = [gPc EXCEPT ![g] = "xmit"]
            /\ gRc' = [gRc EXCEPT ![g] = "VINF_SUCCESS"]
       ELSE /\ gRc' = [gRc EXCEPT ![g] = "VERR_TRY_AGAIN"]
            /\ UNCHANGED << XmitLock, cBufsAtBegin, gPc >>
    /\ UNCHANGED << natState, natVars, linkVars, hSlirpReqQueue, bufVars, gBuf,
                    inputs, wakeVars, drainVars, supVars, emtVars, hostfwd, hostVars, cBufsMax, cPktsMax, cFdsMax, allocAsk, pollVars, sockVars, tmVars,
                    recvVars >>

drvNATNetworkUp_EndXmit(g) ==
    /\ gPc[g] = "xmit"
    /\ XmitLock' = NoThread
    /\ cBufsAtBegin' = 0
    /\ gPc' = [gPc EXCEPT ![g] = "idle"]
    /\ gRc' = [gRc EXCEPT ![g] = "-"]
    /\ UNCHANGED << natState, natVars, linkVars, hSlirpReqQueue, bufVars, gBuf,
                    inputs, wakeVars, drainVars, supVars, emtVars, hostfwd, hostVars, cBufsMax, cPktsMax, cFdsMax, allocAsk, pollVars, sockVars, tmVars,
                    recvVars >>

\* drvNATNetworkUp_AllocBuf called by g with the request req, the allocation
\* named by fail failing.
AllocBufCall(g, req, fail) ==
    /\ gPc[g] = "xmit"
    /\ Len(bufs) < cBufsMax
    /\ LET rc == AllocBufRc(natState = "RUNNING", req[1], req[2],
                            fail # "desc", fail # "seg", fail # "user")
       IN /\ gRc' = [gRc EXCEPT ![g] = rc]
          /\ heapLive' = heapLive + AllocBufBlocks(rc, req[2])
          /\ IF rc = "VINF_SUCCESS"
             THEN /\ bufs' = Append(bufs, NewSgBuf(req[1], req[2]))
                  /\ gBuf' = [gBuf EXCEPT ![g] = Len(bufs) + 1]
                  /\ gPc' = [gPc EXCEPT ![g] = "have_buf"]
             ELSE UNCHANGED << bufs, gBuf, gPc >>
    /\ UNCHANGED << natState, natVars, linkVars, hSlirpReqQueue, XmitLock, cBufsAtBegin,
                    inputs, wakeVars, drainVars, supVars, emtVars, hostfwd, hostVars, cBufsMax, cPktsMax, cFdsMax, allocAsk, pollVars, sockVars, tmVars,
                    recvVars >>

drvNATNetworkUp_AllocBuf(g) ==
    \E req \in allocAsk, fail \in AllocFailures : AllocBufCall(g, req, fail)

\* The device fills the frame: cbUsed is what it asked for.
FillSizes(b) == {b.cbMin}


DeviceFill(g) ==
    /\ gPc[g] = "have_buf"
    /\ \E cb \in FillSizes(bufs[gBuf[g]]) :
         bufs' = [bufs EXCEPT ![gBuf[g]].cbUsed = cb]
    /\ gPc' = [gPc EXCEPT ![g] = "filled"]
    /\ gRc' = [gRc EXCEPT ![g] = "-"]
    /\ UNCHANGED << natState, natVars, linkVars, hSlirpReqQueue, heapLive,
                    XmitLock, cBufsAtBegin, gBuf, inputs, wakeVars, drainVars,
                    supVars, emtVars, hostfwd, hostVars, cBufsMax, cPktsMax, cFdsMax, allocAsk, pollVars, sockVars, tmVars, recvVars >>

drvNATNetworkUp_FreeBuf(g) ==
    /\ gPc[g] \in {"have_buf", "filled"}
    /\ drvNATFreeSgBuf(bufs, gBuf[g])
    /\ gPc' = [gPc EXCEPT ![g] = "xmit"]
    /\ gBuf' = [gBuf EXCEPT ![g] = 0]
    /\ gRc' = [gRc EXCEPT ![g] = "VINF_SUCCESS"]
    /\ UNCHANGED << natState, natVars, linkVars, hSlirpReqQueue, XmitLock, cBufsAtBegin,
                    inputs, wakeVars, drainVars, supVars, emtVars, hostfwd, hostVars, cBufsMax, cPktsMax, cFdsMax, allocAsk, pollVars, sockVars, tmVars,
                    recvVars >>

\* SendBufCheck testing the link state where the code tests the thread state.
SendBufCheck_LinkTest(g) ==
    /\ gPc[g] = "filled"
    /\ LET B == [bufs EXCEPT ![gBuf[g]].fSent = TRUE]
       IN IF enmLinkState = "UP"
          THEN /\ gPc' = [gPc EXCEPT ![g] = "send_enqueue"]
               /\ bufs' = B
               /\ UNCHANGED << heapLive, gBuf, gRc >>
          ELSE /\ drvNATFreeSgBuf(B, gBuf[g])
               /\ gRc' = [gRc EXCEPT ![g] = "VERR_NET_DOWN"]
               /\ gBuf' = [gBuf EXCEPT ![g] = 0]
               /\ gPc' = [gPc EXCEPT ![g] = "xmit"]
    /\ UNCHANGED << natState, natVars, linkVars, hSlirpReqQueue, XmitLock, cBufsAtBegin,
                    inputs, wakeVars, drainVars, supVars, emtVars, hostfwd, hostVars, cBufsMax, cPktsMax, cFdsMax, allocAsk, pollVars, sockVars, tmVars,
                    recvVars >>

\* SendBufCheck returning VERR_NET_DOWN without releasing the buffer.
SendBufCheck_NoFree(g) ==
    /\ gPc[g] = "filled"
    /\ LET B == [bufs EXCEPT ![gBuf[g]].fSent = TRUE]
       IN IF natState = "RUNNING"
          THEN /\ gPc' = [gPc EXCEPT ![g] = "send_enqueue"]
               /\ bufs' = B
               /\ UNCHANGED << heapLive, gBuf, gRc >>
          ELSE /\ bufs' = B
               /\ UNCHANGED heapLive
               /\ gRc' = [gRc EXCEPT ![g] = "VERR_NET_DOWN"]
               /\ gBuf' = [gBuf EXCEPT ![g] = 0]
               /\ gPc' = [gPc EXCEPT ![g] = "xmit"]
    /\ UNCHANGED << natState, natVars, linkVars, hSlirpReqQueue, XmitLock,
                    cBufsAtBegin, inputs, wakeVars, drainVars, supVars,
                    emtVars, hostfwd, hostVars, cBufsMax, cPktsMax, cFdsMax, allocAsk, pollVars, sockVars,
                    tmVars, recvVars >>

\* drvNATNetworkUp_SendBuf, first step: the test of the NAT thread state.
\* fSent records that the buffer was passed to send.
SendBufCheck(g) ==
    /\ gPc[g] = "filled"
    /\ LET B == [bufs EXCEPT ![gBuf[g]].fSent = TRUE]
       IN IF natState = "RUNNING"
          THEN /\ gPc' = [gPc EXCEPT ![g] = "send_enqueue"]
               /\ bufs' = B
               /\ UNCHANGED << heapLive, gBuf, gRc >>
          ELSE /\ drvNATFreeSgBuf(B, gBuf[g])
               /\ gRc' = [gRc EXCEPT ![g] = "VERR_NET_DOWN"]
               /\ gBuf' = [gBuf EXCEPT ![g] = 0]
               /\ gPc' = [gPc EXCEPT ![g] = "xmit"]
    /\ UNCHANGED << natState, natVars, linkVars, hSlirpReqQueue, XmitLock, cBufsAtBegin,
                    inputs, wakeVars, drainVars, supVars, emtVars, hostfwd, hostVars, cBufsMax, cPktsMax, cFdsMax, allocAsk, pollVars, sockVars, tmVars,
                    recvVars >>

\* SendBufEnqueue putting the request in front of the pending ones.
SendBufEnqueue_Front(g) ==
    /\ gPc[g] = "send_enqueue"
    /\ \E fOk \in BOOLEAN :
         IF fOk /\ QueueHasRoom(hSlirpReqQueue)
         THEN /\ hSlirpReqQueue' = << SendReq(gBuf[g]) >> \o hSlirpReqQueue
              /\ gPc' = [gPc EXCEPT ![g] = "send_notify"]
              /\ UNCHANGED << bufVars, gRc, gBuf >>
         ELSE /\ drvNATFreeSgBuf(bufs, gBuf[g])
              /\ gRc' = [gRc EXCEPT ![g] = "VERR_NET_NO_BUFFER_SPACE"]
              /\ gBuf' = [gBuf EXCEPT ![g] = 0]
              /\ gPc' = [gPc EXCEPT ![g] = "xmit"]
              /\ UNCHANGED hSlirpReqQueue
    /\ UNCHANGED << natState, natVars, linkVars, XmitLock, cBufsAtBegin, inputs,
                    wakeVars, drainVars, supVars, emtVars, hostfwd, hostVars,
                    cBufsMax, cPktsMax, cFdsMax, allocAsk, pollVars, sockVars, tmVars, recvVars >>

\* drvNATNetworkUp_SendBuf, second step: RTReqQueueCallEx(NO_WAIT).
SendBufEnqueue(g) ==
    /\ gPc[g] = "send_enqueue"
    /\ \E fOk \in BOOLEAN :
         IF fOk /\ QueueHasRoom(hSlirpReqQueue)
         THEN /\ hSlirpReqQueue' = Append(hSlirpReqQueue, SendReq(gBuf[g]))
              /\ gPc' = [gPc EXCEPT ![g] = "send_notify"]
              /\ UNCHANGED << bufVars, gRc, gBuf >>
         ELSE /\ drvNATFreeSgBuf(bufs, gBuf[g])
              /\ gRc' = [gRc EXCEPT ![g] = "VERR_NET_NO_BUFFER_SPACE"]
              /\ gBuf' = [gBuf EXCEPT ![g] = 0]
              /\ gPc' = [gPc EXCEPT ![g] = "xmit"]
              /\ UNCHANGED hSlirpReqQueue
    /\ UNCHANGED << natState, natVars, linkVars, XmitLock, cBufsAtBegin, inputs,
                    wakeVars, drainVars, supVars, emtVars, hostfwd, hostVars, cBufsMax, cPktsMax, cFdsMax, allocAsk, pollVars, sockVars, tmVars, recvVars >>

\* drvNATNetworkUp_SendBuf, third step: drvNATNotifyNATThread and the return.
SendBufNotify(g) ==
    /\ gPc[g] = "send_notify"
    /\ drvNATNotifyNATThread
    /\ gPc' = [gPc EXCEPT ![g] = "xmit"]
    /\ gRc' = [gRc EXCEPT ![g] = "VINF_SUCCESS"]
    /\ gBuf' = [gBuf EXCEPT ![g] = 0]
    /\ UNCHANGED << natState, natVars, linkVars, hSlirpReqQueue, bufVars,
                    XmitLock, cBufsAtBegin, inputs, drainVars, supVars, emtVars,
                    hostfwd, hostVars, cBufsMax, cPktsMax, cFdsMax, allocAsk, pollVars, sockVars, tmVars, recvVars, nPc >>

(* ------------------------------------------------------------------ *)
(* GSO helpers of pdmnetinline.h, as far as the send worker uses them   *)
(* ------------------------------------------------------------------ *)
PDMNetGsoIsValid(gso, cbFrame) ==
    gso.fTypeOk /\ gso.cbMaxSeg > 0 /\ cbFrame > gso.cbHdrsTotal

PDMNetGsoCalcSegmentCount(gso, cbFrame) ==
    (cbFrame - gso.cbHdrsTotal + gso.cbMaxSeg - 1) \div gso.cbMaxSeg

\* cbPayload of segment iSeg as PDMNetGsoCarveSegment returns it
CarvePayload(gso, cbFrame, iSeg, cSegs) ==
    IF iSeg + 1 < cSegs THEN gso.cbMaxSeg
    ELSE cbFrame - gso.cbHdrsTotal - iSeg * gso.cbMaxSeg

(* ------------------------------------------------------------------ *)
(* Poll flags: drvNAT_PollEventSlirpToHost / drvNAT_PollEventHostToSlirp *)
(* ------------------------------------------------------------------ *)
\* The engine's flags. A flag word is the set of the bits that are set in it.
SlirpFlags ==
    {"SLIRP_POLL_IN", "SLIRP_POLL_OUT", "SLIRP_POLL_PRI", "SLIRP_POLL_ERR",
     "SLIRP_POLL_HUP"}

\* The host's flag words, per build. On POSIX-style hosts the five are
\* distinct single bits; on Windows POLLIN is POLLRDNORM | POLLRDBAND.
POLLRDNORM == {"POLLRDNORM"}
POLLRDBAND == {"POLLRDBAND"}
POLLWRNORM == {"POLLWRNORM"}
POLLIN(fWin) == IF fWin THEN POLLRDNORM \cup POLLRDBAND ELSE {"POLLIN"}
POLLOUT == {"POLLOUT"}
POLLPRI == {"POLLPRI"}
POLLERR == {"POLLERR"}
POLLHUP == {"POLLHUP"}

\* The truth value of (iEvents & fMask) in an if.
BitAnd(iEvents, fMask) == iEvents \cap fMask # {}

\* iRet |= fBits when the test holds, iRet |= nothing otherwise.
OrIf(fTest, fBits) == IF fTest THEN fBits ELSE {}

\* drvNAT_PollEventHostToSlirp without its POLLHUP line.
PollEventHostToSlirp_NoHup(fWin, iEvents) ==
    IF ~fWin
    THEN OrIf(BitAnd(iEvents, POLLIN(fWin)), {"SLIRP_POLL_IN"})
            \cup OrIf(BitAnd(iEvents, POLLOUT), {"SLIRP_POLL_OUT"})
            \cup OrIf(BitAnd(iEvents, POLLPRI), {"SLIRP_POLL_PRI"})
            \cup OrIf(BitAnd(iEvents, POLLERR), {"SLIRP_POLL_ERR"})
    ELSE OrIf(BitAnd(iEvents, POLLRDNORM \cup POLLRDBAND), {"SLIRP_POLL_IN"})
            \cup OrIf(BitAnd(iEvents, POLLWRNORM), {"SLIRP_POLL_OUT"})
            \cup OrIf(BitAnd(iEvents, POLLPRI), {"SLIRP_POLL_PRI"})
            \cup OrIf(BitAnd(iEvents, POLLERR), {"SLIRP_POLL_ERR"})

\* drvNAT_PollEventSlirpToHost(iEvents) of the build
drvNAT_PollEventSlirpToHost(fWin, iEvents) ==
    IF ~fWin
    THEN OrIf("SLIRP_POLL_IN" \in iEvents, POLLIN(fWin))
            \cup OrIf("SLIRP_POLL_OUT" \in iEvents, POLLOUT)
            \cup OrIf("SLIRP_POLL_PRI" \in iEvents, POLLPRI)
            \cup OrIf("SLIRP_POLL_ERR" \in iEvents, POLLERR)
            \cup OrIf("SLIRP_POLL_HUP" \in iEvents, POLLHUP)
    ELSE OrIf("SLIRP_POLL_IN" \in iEvents, POLLRDNORM \cup POLLRDBAND)
            \cup OrIf("SLIRP_POLL_OUT" \in iEvents, POLLWRNORM)
            \cup OrIf("SLIRP_POLL_PRI" \in iEvents, POLLIN(fWin))
            \cup OrIf("SLIRP_POLL_ERR" \in iEvents, {})
            \cup OrIf("SLIRP_POLL_HUP" \in iEvents, {})

\* drvNAT_PollEventHostToSlirp(iEvents) of the build
drvNAT_PollEventHostToSlirp(fWin, iEvents) ==
    IF ~fWin
    THEN OrIf(BitAnd(iEvents, POLLIN(fWin)), {"SLIRP_POLL_IN"})
            \cup OrIf(BitAnd(iEvents, POLLOUT), {"SLIRP_POLL_OUT"})
            \cup OrIf(BitAnd(iEvents, POLLPRI), {"SLIRP_POLL_PRI"})
            \cup OrIf(BitAnd(iEvents, POLLERR), {"SLIRP_POLL_ERR"})
            \cup OrIf(BitAnd(iEvents, POLLHUP), {"SLIRP_POLL_HUP"})
    ELSE OrIf(BitAnd(iEvents, POLLRDNORM \cup POLLRDBAND), {"SLIRP_POLL_IN"})
            \cup OrIf(BitAnd(iEvents, POLLWRNORM), {"SLIRP_POLL_OUT"})
            \cup OrIf(BitAnd(iEvents, POLLPRI), {"SLIRP_POLL_PRI"})
            \cup OrIf(BitAnd(iEvents, POLLERR), {"SLIRP_POLL_ERR"})
            \cup OrIf(BitAnd(iEvents, POLLHUP), {"SLIRP_POLL_HUP"})

\* polls = RTMemAllocZ(64 * sizeof(struct pollfd)); uPollCap = 64
PollCapInit == 64

\* An entry of the zeroed array.
ZeroPollfd == [fd |-> "zero", events |-> {}]

\* The growth test letting the places of the array run out first.
AddPollGrows_Late == nsock + 1 > uPollCap + 1

\* if (nsock + 1 >= uPollCap): the array has to grow
AddPollGrows == nsock + 1 >= uPollCap

\* AddPollCb writing the entry one place before nsock.
AddPollCb_IndexBefore(fd, iEvents, fReallocOk) ==
    IF AddPollGrows /\ ~fReallocOk
    THEN [nsock |-> nsock, uPollCap |-> uPollCap, polls0 |-> polls0, idx |-> -1]
    ELSE [nsock |-> nsock + 1,
          uPollCap |-> IF AddPollGrows THEN uPollCap * 2 ELSE uPollCap,
          polls0 |-> IF nsock - 1 = 0
                     THEN [fd |-> fd,
                           events |-> drvNAT_PollEventSlirpToHost(fWindows, iEvents)]
                     ELSE polls0,
          idx |-> nsock - 1]

\* drvNAT_AddPollCb(iFd, iEvents, opaque) with the array growing by
\* RTMemRealloc when it is full: what the call leaves in nsock, uPollCap and
\* polls[0], and the index it returns (-1 when RTMemRealloc fails).
AddPollCb(fd, iEvents, fReallocOk) ==
    IF AddPollGrows /\ ~fReallocOk
    THEN [nsock |-> nsock, uPollCap |-> uPollCap, polls0 |-> polls0, idx |-> -1]
    ELSE [nsock |-> nsock + 1,
          uPollCap |-> IF AddPollGrows THEN uPollCap * 2 ELSE uPollCap,
          polls0 |-> IF nsock = 0
                     THEN [fd |-> fd,
                           events |-> drvNAT_PollEventSlirpToHost(fWindows, iEvents)]
                     ELSE polls0,
          idx |-> nsock]

\* The first statements of drvNATAsyncIoThread: the wakeup channel's
\* readable end is added with SLIRP_POLL_IN | SLIRP_POLL_HUP, then polls[0].fd
\* is set to it and, on the non-Windows build, polls[0].events to
\* POLLRDNORM | POLLPRI | POLLRDBAND.
ThreadPrologue ==
    \E fReallocOk \in BOOLEAN :
        LET r == AddPollCb("wakeup", {"SLIRP_POLL_IN", "SLIRP_POLL_HUP"}, fReallocOk)
        IN /\ nsock' = r.nsock
           /\ uPollCap' = r.uPollCap
           /\ polls0' = [fd |-> "wakeup",
                         events |-> IF fWindows THEN r.polls0.events
                                    ELSE POLLRDNORM \cup POLLPRI \cup POLLRDBAND]

\* drvNAT_AddPollCb(iFd, iEvents, opaque), called by the engine from
\* slirp_pollfds_fill: the entry's events are the translated flags.
drvNAT_AddPollCb ==
    /\ natPc = "fill"
    /\ nsock <= cFdsMax
    /\ \E fReallocOk \in BOOLEAN :
         LET r == AddPollCb("socket", evSlirp, fReallocOk)
         IN /\ nsock' = r.nsock
            /\ uPollCap' = r.uPollCap
            /\ polls0' = r.polls0
            /\ evHost' = IF r.idx = 1
                         THEN << drvNAT_PollEventSlirpToHost(fWindows, evSlirp) >>
                         ELSE evHost
    /\ UNCHANGED << natState, natVars, linkVars, hSlirpReqQueue, bufVars,
                    guestVars, inputs, wakeVars, drainVars, supVars, emtVars,
                    hostfwd, fWindows, cBufsMax, cPktsMax, cFdsMax, allocAsk, evSlirp,
                    evBack, pollVars, tmVars, recvVars >>

\* drvNAT_GetREventsCb(idx, opaque), called by the engine from
\* slirp_pollfds_poll after a poll that reported every event asked for.
drvNAT_GetREventsCb ==
    /\ natPc = "pollfds_poll"
    /\ evHost # << >>
    /\ evBack = << >>
    /\ evBack' = << drvNAT_PollEventHostToSlirp(fWindows, evHost[1]) >>
    /\ UNCHANGED << natState, natVars, linkVars, hSlirpReqQueue, bufVars,
                    guestVars, inputs, wakeVars, drainVars, supVars, emtVars,
                    hostfwd, fWindows, cBufsMax, cPktsMax, cFdsMax, allocAsk, evSlirp, evHost, pollVars, sockVars, tmVars,
                    recvVars >>

(* ------------------------------------------------------------------ *)
(* Millisecond values                                                   *)
(* ------------------------------------------------------------------ *)
\* A 64-bit millisecond value v is written << hi, lo >> with
\* v = hi * LimbBase + lo and 0 <= lo < LimbBase. A uint32_t holds U32Limbs
\* limbs.
LimbBase == 1073741824
U32Limbs == 4
Zero == << 0, 0 >>

\* a - b in int64_t
I64Sub(a, b) ==
    LET lo == a[2] - b[2]
    IN IF lo >= 0 THEN << a[1] - b[1], lo >>
       ELSE << a[1] - b[1] - 1, lo + LimbBase >>

\* a < b in int64_t
I64Less(a, b) == a[1] < b[1] \/ (a[1] = b[1] /\ a[2] < b[2])

\* (uint32_t)a
U32(a) == << a[1] % U32Limbs, a[2] >>

\* The value of uTimeout as a millisecond value.
OfTimeout(ms) == << 0, ms >>

(* ------------------------------------------------------------------ *)
(* Timers: the SlirpTimer list and the engine's timer callbacks         *)
(* ------------------------------------------------------------------ *)
DRVNAT_DEFAULT_TIMEOUT == 3600000

MaxTimers == 2
MaxTimerOps == 3

\* Descriptors the engine registers in one round.
MaxFds == 63

TimerIds == 1..MaxTimers
NULL == 0

\* What the clock can show, and the expiries and timeouts the engine asks for.
ClockValues == { << 0, 1000 >>, << 0, 1040 >>, << 0, 1100 >>, << 4, 1000 >> }
Expiries == { << 0, 1050 >>, << 4, 1050 >> }
EngineTimeouts == { 1000 }

\* A timer node: st is "none" for memory never handed out, "live" for a timer
\* the engine holds, "freed" for memory given back with RTMemFree. T is the
\* expiry the engine last asked for with timer_mod, Zero once the handler ran.
NoTimer == [st |-> "none", next |-> NULL, uTimeExpire |-> Zero, T |-> Zero]

IsFreed(p) == timers[p].st = "freed"

\* What a walk reads at address p: the node's fields, or, for memory that was
\* given back, either what was left there or something else.
NodeReads(p) ==
    IF IsFreed(p)
    THEN { [next |-> n, uTimeExpire |-> e] :
             n \in {timers[p].next, NULL}, e \in {timers[p].uTimeExpire, Zero} }
    ELSE { [next |-> timers[p].next, uTimeExpire |-> timers[p].uTimeExpire] }

\* The nodes a walk from p meets while it follows the stored next links, for
\* at most n steps.
RECURSIVE Chain(_, _)
Chain(p, n) ==
    IF p = NULL \/ n = 0 THEN << >>
    ELSE << p >> \o Chain(timers[p].next, n - 1)

ListChain == Chain(pTimerHead, MaxTimers + 1)

\* The list runs into itself: a walk to the NULL at its end never ends.
ListCyclic == Len(ListChain) > MaxTimers

\* drvNAT_UpdateTimeout's loop body: *uTimeout after the node with expiry
\* uExpire was looked at, where now is the clock value read at entry.
drvNAT_UpdateTimeout(uExpire, now, timeout) ==
    IF uExpire = Zero THEN timeout
    ELSE LET wrapped == U32(I64Sub(uExpire, U32(now)))
             diff == IF I64Less(wrapped, Zero) THEN Zero ELSE wrapped
         IN IF I64Less(diff, OfTimeout(timeout)) THEN diff[2] ELSE timeout

\* drvNAT_CheckTimeout's test of a node: armed, and diff <= 0.
TimerDue(uExpire, now) ==
    /\ uExpire # Zero
    /\ LET diff == I64Sub(uExpire, now)
       IN I64Less(diff, Zero) \/ diff = Zero

\* The NAT thread is in engine code that may call the timer callbacks.
TimerOpPcs == {"fill", "pollfds_poll", "ct_handler"}

tmUnchanged ==
    UNCHANGED << natState, natVars, linkVars, hSlirpReqQueue, bufVars,
                 guestVars, inputs, wakeVars, drainVars, supVars, emtVars,
                 hostfwd, hostVars, cBufsMax, cPktsMax, cFdsMax, allocAsk, sockVars, recvVars >>

\* slirp_pollfds_fill lowers *timeout.
EngineSetTimeout ==
    /\ natPc = "fill"
    /\ uTimeout = DRVNAT_DEFAULT_TIMEOUT
    /\ \E ms \in EngineTimeouts : uTimeout' = ms
    /\ UNCHANGED << cChangedFDs, tmVars >>
    /\ tmUnchanged

\* The addresses RTMemAlloc may return: memory never handed out (the lowest
\* such address stands for all of them) or memory that was given back.
AllocAddresses ==
    LET fresh == {t \in TimerIds : timers[t].st = "none"}
    IN {t \in TimerIds : timers[t].st = "freed"}
          \cup {t \in fresh : \A u \in fresh : t <= u}

\* drvNAT_TimerNewCb(slirpTimeCb, cb_opaque, opaque)
drvNAT_TimerNewCb ==
    /\ natPc \in TimerOpPcs
    /\ cTimerOps < MaxTimerOps
    /\ cTimerOps' = cTimerOps + 1
    /\ \E fMemOk \in BOOLEAN :
         IF fMemOk
         THEN \E t \in AllocAddresses :
                /\ timers' = [timers EXCEPT ![t] = [st |-> "live",
                                                    next |-> pTimerHead,
                                                    uTimeExpire |-> Zero,
                                                    T |-> Zero]]
                /\ pTimerHead' = t
         ELSE UNCHANGED << timers, pTimerHead >>
    /\ UNCHANGED << pollVars, sockVars, nowMs, pCurrent, currTime, tmUaf >>
    /\ tmUnchanged

\* drvNAT_TimerModCb(pTimer, expireTime, opaque): the int64_t expireTime is
\* stored into the uint32_t uTimeExpire. The engine arms a timer for a time
\* that is still to come.
drvNAT_TimerModCb ==
    /\ natPc \in TimerOpPcs
    /\ cTimerOps < MaxTimerOps
    /\ cTimerOps' = cTimerOps + 1
    /\ \E t \in TimerIds, expireTime \in Expiries :
         /\ timers[t].st = "live"
         /\ I64Less(nowMs, expireTime)
         /\ timers' = [timers EXCEPT ![t].uTimeExpire = U32(expireTime),
                                     ![t].T = expireTime]
    /\ UNCHANGED << pollVars, sockVars, nowMs, pTimerHead, pCurrent, currTime, tmUaf >>
    /\ tmUnchanged

\* drvNAT_TimerFreeCb(pTimer, opaque): the walk frees the node where it meets
\* it and goes on to the end of the list. A walk that read freed memory on
\* its way may have been led away before it met the node, which then stays
\* allocated ("lost"); a walk round a list that runs into itself never
\* returns.
drvNAT_TimerFreeCb ==
    /\ natPc \in TimerOpPcs
    /\ cTimerOps < MaxTimerOps
    /\ cTimerOps' = cTimerOps + 1
    /\ \E t \in TimerIds :
         /\ timers[t].st = "live"
         /\ LET chain == ListChain
                met == {i \in 1..Len(chain) : chain[i] = t}
                before == {chain[i] : i \in {j \in 1..Len(chain) :
                                                \A k \in met : j < k}}
                fStale == \E p \in before : IsFreed(p)
                outcomes == IF met = {} THEN {"lost"}
                            ELSE IF fStale THEN {"freed", "lost"}
                            ELSE {"freed"}
            IN /\ \E o \in outcomes : timers' = [timers EXCEPT ![t].st = o]
               /\ tmUaf' = IF \E p \in Range(chain) : IsFreed(p)
                           THEN tmUaf \cup {"free"} ELSE tmUaf
    /\ natPc' = IF ListCyclic THEN "tm_hang" ELSE natPc
    /\ UNCHANGED << natState, natReq, natSeg, linkVars, hSlirpReqQueue, bufVars,
                    guestVars, inputs, wakeVars, drainVars, supVars, emtVars,
                    hostfwd, hostVars, cBufsMax, cPktsMax, cFdsMax, allocAsk, recvVars, pollVars, sockVars, nowMs, pTimerHead,
                    pCurrent, currTime >>

\* Time passes.
ClockTick ==
    /\ \E v \in ClockValues :
         /\ I64Less(nowMs, v)
         /\ nowMs' = v
    /\ UNCHANGED << pollVars, sockVars, timers, pTimerHead, pCurrent, currTime,
                    cTimerOps, tmUaf >>
    /\ tmUnchanged

(* ------------------------------------------------------------------ *)
(* The NAT thread: drvNATAsyncIoThread                                  *)
(* ------------------------------------------------------------------ *)
\* The NAT thread is inside an engine entry point.
NatEnginePcs == {"fill", "pollfds_poll", "w_input", "w_gso_input", "w_pf_engine"}

\* First call of the thread function, in INITIALIZING: polls[0] is set up
\* (revents = 0) and the function returns at once.
NatInitCall ==
    /\ natPc = "unborn"
    /\ natState = "INITIALIZING"
    /\ natPc' = "off"
    /\ revents0' = FALSE
    /\ ThreadPrologue
    /\ UNCHANGED << natState, natReq, natSeg, linkVars, hSlirpReqQueue, bufVars,
                    guestVars, inputs, wakeVars, drainCb, supVars, emtVars,
                    hostfwd, hostVars, cBufsMax, cPktsMax, cFdsMax, allocAsk, pollVars,
                    tmVars, recvVars >>

\* The thread function is called while the thread is RUNNING: the wakeup
\* entry is added at index nsock, which is 1 or more by now, and polls[0] is
\* set up again. The Windows build leaves polls[0].events and .revents as
\* they are.
NatEnter ==
    /\ natPc = "off"
    /\ natState = "RUNNING"
    /\ natPc' = "link_check"
    /\ revents0' = IF fWindows THEN revents0 ELSE FALSE
    /\ ThreadPrologue
    /\ UNCHANGED << natState, natReq, natSeg, linkVars, hSlirpReqQueue, bufVars,
                    guestVars, inputs, wakeVars, drainCb, supVars, emtVars,
                    hostfwd, hostVars, cBufsMax, cPktsMax, cFdsMax, allocAsk, pollVars,
                    tmVars, recvVars >>

\* The thread is told to terminate while it is outside the thread function.
NatExitOff ==
    /\ natPc \in {"off", "unborn"}
    /\ natState = "TERMINATING"
    /\ natPc' = "terminated"
    /\ UNCHANGED << natState, natReq, natSeg, linkVars, hSlirpReqQueue, bufVars,
                    guestVars, inputs, wakeVars, drainVars, supVars, emtVars,
                    hostfwd, hostVars, cBufsMax, cPktsMax, cFdsMax, allocAsk, pollVars, sockVars, tmVars, recvVars >>

\* drvNATNotifyLinkChangedWorker(pThis, s)
drvNATNotifyLinkChangedWorker(s) ==
    /\ enmLinkState' = s
    /\ enmLinkStateWant' = s

\* if (enmLinkStateWant != enmLinkState) drvNATNotifyLinkChangedWorker(...)
NatLinkCheck ==
    /\ natPc = "link_check"
    /\ IF enmLinkStateWant # enmLinkState
       THEN drvNATNotifyLinkChangedWorker(enmLinkStateWant)
       ELSE UNCHANGED linkVars
    /\ natPc' = "loop"
    /\ UNCHANGED << natState, natReq, natSeg, hSlirpReqQueue, bufVars,
                    guestVars, inputs, wakeVars, drainVars, supVars, emtVars,
                    hostfwd, hostVars, cBufsMax, cPktsMax, cFdsMax, allocAsk, pollVars, sockVars, tmVars, recvVars >>

\* while (pThread->enmState == RUNNING): enter slirp_pollfds_fill, or return.
\* A round starts with uTimeout = DRVNAT_DEFAULT_TIMEOUT and nsock = 1, which
\* drops the poll entries of the round before.
NatLoopTest ==
    /\ natPc = "loop"
    /\ natPc' = IF natState = "RUNNING" THEN "fill"
                ELSE IF natState = "TERMINATING" THEN "terminated" ELSE "off"
    /\ IF natState = "RUNNING"
       THEN /\ uTimeout' = DRVNAT_DEFAULT_TIMEOUT
            /\ nsock' = 1
            /\ evHost' = << >>
            /\ evBack' = << >>
       ELSE UNCHANGED << uTimeout, nsock, evHost, evBack >>
    /\ UNCHANGED << natState, natReq, natSeg, linkVars, hSlirpReqQueue, bufVars,
                    guestVars, inputs, wakeVars, drainVars, supVars, emtVars,
                    hostfwd, fWindows, cBufsMax, cPktsMax, cFdsMax, allocAsk, evSlirp,
                    cChangedFDs, uPollCap, polls0, tmVars, recvVars >>

\* slirp_pollfds_fill returns and drvNAT_UpdateTimeout starts: it reads the
\* clock and the list head. With an empty list it returns at once and the
\* thread enters poll().
NatFillReturn ==
    /\ natPc = "fill"
    /\ IF pTimerHead = NULL
       THEN /\ natPc' = "poll_wait"
            /\ UNCHANGED << pCurrent, currTime >>
       ELSE /\ natPc' = "ut_walk"
            /\ pCurrent' = pTimerHead
            /\ currTime' = nowMs
    /\ UNCHANGED << natState, natReq, natSeg, linkVars, hSlirpReqQueue, bufVars,
                    guestVars, inputs, wakeVars, drainVars, supVars, emtVars,
                    hostfwd, hostVars, cBufsMax, cPktsMax, cFdsMax, allocAsk, pollVars, sockVars, nowMs, timers, pTimerHead,
                    cTimerOps, tmUaf, recvVars >>

\* One turn of drvNAT_UpdateTimeout's loop; at the end of the list the thread
\* enters poll().
NatUpdateTimeoutStep ==
    /\ natPc = "ut_walk"
    /\ IF pCurrent = NULL
       THEN /\ natPc' = "poll_wait"
            /\ currTime' = Zero
            /\ UNCHANGED << uTimeout, pCurrent, tmUaf >>
       ELSE /\ \E r \in NodeReads(pCurrent) :
                 /\ uTimeout' = drvNAT_UpdateTimeout(r.uTimeExpire, currTime, uTimeout)
                 /\ pCurrent' = r.next
            /\ tmUaf' = IF IsFreed(pCurrent) THEN tmUaf \cup {"update"} ELSE tmUaf
            /\ UNCHANGED << natPc, currTime >>
    /\ UNCHANGED << natState, natReq, natSeg, linkVars, hSlirpReqQueue, bufVars,
                    guestVars, inputs, wakeVars, drainVars, supVars, emtVars,
                    hostfwd, hostVars, cBufsMax, cPktsMax, cFdsMax, allocAsk, sockVars, cChangedFDs, nowMs, timers, pTimerHead,
                    cTimerOps, recvVars >>

\* How poll() / WSAPoll() can return: a descriptor is ready, the timeout
\* passed with none ready (only when the wakeup channel is empty), a signal
\* interrupted the wait (POSIX), or the call failed.
PollOutcomes ==
    {"ready", "failed"}
        \cup (IF pipe = 0 THEN {"timeout"} ELSE {})
        \cup (IF fWindows THEN {} ELSE {"eintr"})

\* cChangedFDs after the error handling that follows the call.
PollChangedFDs(outcome) ==
    CASE outcome = "ready" -> 1
      [] outcome = "timeout" -> 0
      [] outcome = "eintr" -> 0
      [] outcome = "failed" -> -1

\* poll() returns: on success it rewrites revents (index 0 is readable iff the
\* pipe holds a byte), on failure it leaves them. The POSIX loop enters
\* slirp_pollfds_poll next, the Windows loop tests polls[0].revents first.
NatPollReturn ==
    /\ natPc = "poll_wait"
    /\ \E outcome \in PollOutcomes :
         /\ cChangedFDs' = PollChangedFDs(outcome)
         /\ revents0' = IF outcome \in {"ready", "timeout"} THEN pipe > 0
                         ELSE revents0
    /\ natPc' = IF fWindows /\ revents0' THEN "drain_read" ELSE "pollfds_poll"
    /\ UNCHANGED << natState, natReq, natSeg, linkVars, hSlirpReqQueue, bufVars,
                    guestVars, inputs, wakeVars, drainCb, supVars, emtVars,
                    hostfwd, hostVars, cBufsMax, cPktsMax, cFdsMax, allocAsk, sockVars, uTimeout, tmVars, recvVars >>

\* slirp_pollfds_poll returns. The POSIX loop tests polls[0].revents now and
\* does not read cChangedFDs again; the Windows loop has drained already and
\* goes on to the requests.
NatPollfdsPollReturn ==
    /\ natPc = "pollfds_poll"
    /\ cbPc = "none"
    /\ natPc' = IF ~fWindows /\ revents0 THEN "drain_read" ELSE "process"
    /\ cChangedFDs' = IF fWindows THEN cChangedFDs ELSE 0
    /\ UNCHANGED << natState, natReq, natSeg, linkVars, hSlirpReqQueue, bufVars,
                    guestVars, inputs, wakeVars, drainVars, supVars, emtVars,
                    hostfwd, hostVars, cBufsMax, cPktsMax, cFdsMax, allocAsk, sockVars, uTimeout, tmVars, recvVars >>

\* cbWakeupNotifs = ASMAtomicReadU64(&pThis->cbWakeupNotifs)
NatDrainRead ==
    /\ natPc = "drain_read"
    /\ drainCb' = cbWakeupNotifs
    /\ natPc' = "drain_pipe"
    /\ UNCHANGED << natState, natReq, natSeg, linkVars, hSlirpReqQueue, bufVars,
                    guestVars, inputs, wakeVars, revents0, supVars, emtVars,
                    hostfwd, hostVars, cBufsMax, cPktsMax, cFdsMax, allocAsk, pollVars, sockVars, tmVars, recvVars >>

\* Bytes RTPipeRead hands out for a request of cbToRead bytes.
PipeReadCount(cbToRead) == Min(cbToRead, pipe)

\* A uint64_t / size_t is kept as the integer nearest to 0 that is congruent
\* to it modulo 2^64: -1 is 0xFFFFFFFFFFFFFFFF. Sums and differences of
\* these are then the sums and differences modulo 2^64, and the unsigned
\* order puts the negative ones above the others.
U64Less(a, b) == IF (a < 0) = (b < 0) THEN a < b ELSE b < 0

\* RT_MIN on two such values
U64Min(a, b) == IF U64Less(a, b) THEN a ELSE b

\* (size_t)SOCKET_ERROR
SocketErrorAsSize == -1

\* What the uninitialised cbRead can hold when RTPipeRead did not store it.
UninitCbRead == {-1, 0, 1}

\* RTPipeRead(hPipeRead, ch, RT_MIN(cbWakeupNotifs, 1024), &cbRead)
NatDrainPipe ==
    /\ natPc = "drain_pipe"
    /\ LET cbRead == PipeReadCount(U64Min(drainCb, DrainChunk))
       IN /\ pipe' = pipe - cbRead
          /\ drainCb' = cbRead
    /\ natPc' = "drain_sub"
    /\ UNCHANGED << natState, natReq, natSeg, linkVars, hSlirpReqQueue, bufVars,
                    guestVars, inputs, cbWakeupNotifs, nPc, revents0, supVars,
                    emtVars, hostfwd, hostVars, cBufsMax, cPktsMax, cFdsMax, allocAsk, pollVars, sockVars, tmVars, recvVars >>

\* The read of the wakeup channel fails: neither build tests for it. On
\* Windows cbRead = recv(...) is SOCKET_ERROR; elsewhere the status of
\* RTPipeRead is dropped and cbRead keeps what the stack held. (A failure is
\* taken only while the counter is within the channel's capacity.)
NatDrainPipeFails ==
    /\ natPc = "drain_pipe"
    /\ cbWakeupNotifs \in 0..MaxPipe
    /\ drainCb' \in (IF fWindows THEN {SocketErrorAsSize} ELSE UninitCbRead)
    /\ natPc' = "drain_sub"
    /\ UNCHANGED << natState, natReq, natSeg, linkVars, hSlirpReqQueue, bufVars,
                    guestVars, inputs, wakeVars, revents0, supVars,
                    emtVars, hostfwd, hostVars, cBufsMax, cPktsMax, cFdsMax,
                    allocAsk, pollVars, sockVars, tmVars, recvVars >>

\* ASMAtomicSubU64(&pThis->cbWakeupNotifs, cbRead)
NatDrainSub ==
    /\ natPc = "drain_sub"
    /\ cbWakeupNotifs' = cbWakeupNotifs - drainCb
    /\ drainCb' = 0
    /\ natPc' = IF fWindows THEN "pollfds_poll" ELSE "process"
    /\ UNCHANGED << natState, natReq, natSeg, linkVars, hSlirpReqQueue, bufVars,
                    guestVars, inputs, pipe, nPc, revents0, supVars, emtVars,
                    hostfwd, hostVars, cBufsMax, cPktsMax, cFdsMax, allocAsk, pollVars, sockVars, tmVars, recvVars >>


(* ------------------------------------------------------------------ *)
(* RTReqQueueProcess(hSlirpReqQueue, 0) and the workers it runs         *)
(* ------------------------------------------------------------------ *)
\* Take the oldest request. When none is left the round goes on to
\* drvNAT_CheckTimeout, except that the Windows loop, after a wait that ended
\* with cChangedFDs == 0, continues with the next round at once.
NatProcessNext ==
    /\ natPc = "process"
    /\ IF hSlirpReqQueue = << >>
       THEN /\ natPc' = IF fWindows /\ cChangedFDs = 0 THEN "loop"
                        ELSE "check_timeout"
            /\ cChangedFDs' = 0
            /\ UNCHANGED << natReq, hSlirpReqQueue >>
       ELSE /\ natReq' = Head(hSlirpReqQueue)
            /\ hSlirpReqQueue' = Tail(hSlirpReqQueue)
            /\ natPc' = "w_" \o Head(hSlirpReqQueue).fn
            /\ UNCHANGED cChangedFDs
    /\ UNCHANGED << natState, natSeg, linkVars, bufVars, guestVars, inputs,
                    wakeVars, drainVars, supVars, emtVars, hostfwd, hostVars, cBufsMax, cPktsMax, cFdsMax, allocAsk, sockVars,
                    uTimeout, tmVars, recvVars >>

\* drvNAT_CheckTimeout starts: it reads the clock and the list head. With an
\* empty list it returns at once and the round is over.
NatCheckTimeout ==
    /\ natPc = "check_timeout"
    /\ IF pTimerHead = NULL
       THEN /\ natPc' = "loop"
            /\ UNCHANGED << pCurrent, currTime >>
       ELSE /\ natPc' = "ct_walk"
            /\ pCurrent' = pTimerHead
            /\ currTime' = nowMs
    /\ UNCHANGED << natState, natReq, natSeg, linkVars, hSlirpReqQueue, bufVars,
                    guestVars, inputs, wakeVars, drainVars, supVars, emtVars,
                    hostfwd, hostVars, cBufsMax, cPktsMax, cFdsMax, allocAsk, pollVars, sockVars, nowMs, timers, pTimerHead,
                    cTimerOps, tmUaf, recvVars >>

\* One turn of drvNAT_CheckTimeout's loop up to the handler call: a node that
\* is armed and due has its expiry cleared and its handler entered; any other
\* node is stepped over. At the end of the list the round is over.
NatCheckTimeoutStep ==
    /\ natPc = "ct_walk"
    /\ IF pCurrent = NULL
       THEN /\ natPc' = "loop"
            /\ currTime' = Zero
            /\ UNCHANGED << pCurrent, timers, tmUaf >>
       ELSE /\ \E r \in NodeReads(pCurrent) :
                 IF TimerDue(r.uTimeExpire, currTime)
                 THEN /\ timers' = [timers EXCEPT ![pCurrent].uTimeExpire = Zero,
                                                  ![pCurrent].T = Zero]
                      /\ natPc' = "ct_handler"
                      /\ UNCHANGED pCurrent
                 ELSE /\ pCurrent' = r.next
                      /\ UNCHANGED << natPc, timers >>
            /\ tmUaf' = IF IsFreed(pCurrent) THEN tmUaf \cup {"check"} ELSE tmUaf
            /\ UNCHANGED currTime
    /\ UNCHANGED << natState, natReq, natSeg, linkVars, hSlirpReqQueue, bufVars,
                    guestVars, inputs, wakeVars, drainVars, supVars, emtVars,
                    hostfwd, hostVars, cBufsMax, cPktsMax, cFdsMax, allocAsk, pollVars, sockVars, nowMs, pTimerHead, cTimerOps,
                    recvVars >>

\* pCurrent->pHandler(pCurrent->opaque) returns.
NatTimerHandlerReturn ==
    /\ natPc = "ct_handler"
    /\ natPc' = "ct_next"
    /\ UNCHANGED << natState, natReq, natSeg, linkVars, hSlirpReqQueue, bufVars,
                    guestVars, inputs, wakeVars, drainVars, supVars, emtVars,
                    hostfwd, hostVars, cBufsMax, cPktsMax, cFdsMax, allocAsk, pollVars, sockVars, tmVars, recvVars >>

\* pCurrent = pCurrent->next after the handler call.
NatCheckTimeoutNext ==
    /\ natPc = "ct_next"
    /\ \E r \in NodeReads(pCurrent) : pCurrent' = r.next
    /\ tmUaf' = IF IsFreed(pCurrent) THEN tmUaf \cup {"check"} ELSE tmUaf
    /\ natPc' = "ct_walk"
    /\ UNCHANGED << natState, natReq, natSeg, linkVars, hSlirpReqQueue, bufVars,
                    guestVars, inputs, wakeVars, drainVars, supVars, emtVars,
                    hostfwd, hostVars, cBufsMax, cPktsMax, cFdsMax, allocAsk, pollVars, sockVars, nowMs, timers, pTimerHead,
                    currTime, cTimerOps, recvVars >>

\* The send worker handing the frame to the engine whatever the link state.
SendWorkerLinkUp_Always == enmLinkState \in LinkStates

\* Whether the send worker hands the frame to the engine at all.
SendWorkerLinkUp == enmLinkState = "UP"

\* drvNATSendWorker: the link test and the choice of path.  An ordinary frame
\* enters slirp_input; a valid GSO frame enters the segmentation loop.
drvNATSendWorker ==
    /\ natPc = "w_send"
    /\ LET b == bufs[natReq.buf]
       IN IF SendWorkerLinkUp /\ b.pvAllocator
          THEN /\ inputs' = Append(inputs, << natReq.buf, b.cbUsed >>)
               /\ natPc' = "w_input"
               /\ UNCHANGED natSeg
          ELSE IF SendWorkerLinkUp /\ PDMNetGsoIsValid(b.gso, b.cbUsed)
          THEN /\ natSeg' = 0
               /\ natPc' = "w_gso"
               /\ UNCHANGED inputs
          ELSE /\ natPc' = "w_free"
               /\ UNCHANGED << inputs, natSeg >>
    /\ UNCHANGED << natState, natReq, linkVars, hSlirpReqQueue, bufVars,
                    guestVars, wakeVars, drainVars, supVars, emtVars, hostfwd, hostVars, cBufsMax, cPktsMax, cFdsMax, allocAsk, pollVars, sockVars, tmVars,
                    recvVars >>

\* slirp_input of an ordinary frame returns.
SendWorkerInputReturn ==
    /\ natPc = "w_input"
    /\ cbPc = "none"
    /\ natPc' = "w_free"
    /\ UNCHANGED << natState, natReq, natSeg, linkVars, hSlirpReqQueue, bufVars,
                    guestVars, inputs, wakeVars, drainVars, supVars, emtVars,
                    hostfwd, hostVars, cBufsMax, cPktsMax, cFdsMax, allocAsk, pollVars, sockVars, tmVars, recvVars >>

\* One turn of the segmentation loop: allocate the scratch, carve segment
\* iSeg and enter slirp_input with it; or leave the loop.
SendWorkerGsoSegment ==
    /\ natPc = "w_gso"
    /\ LET b == bufs[natReq.buf]
           cSegs == PDMNetGsoCalcSegmentCount(b.gso, b.cbUsed)
       IN IF natSeg < cSegs
          THEN /\ heapLive' = heapLive + 1
               /\ inputs' = Append(inputs,
                     << natReq.buf,
                        b.gso.cbHdrsTotal + CarvePayload(b.gso, b.cbUsed, natSeg, cSegs) >>)
               /\ natPc' = "w_gso_input"
          ELSE /\ natPc' = "w_free"
               /\ UNCHANGED << heapLive, inputs >>
    /\ UNCHANGED << natState, natReq, natSeg, linkVars, hSlirpReqQueue, bufs,
                    guestVars, wakeVars, drainVars, supVars, emtVars, hostfwd, hostVars, cBufsMax, cPktsMax, cFdsMax, allocAsk, pollVars, sockVars, tmVars,
                    recvVars >>

\* One turn of the segmentation loop in which RTMemAlloc(DRVNAT_MAXFRAMESIZE)
\* returns NULL: the result is not tested, PDMNetGsoCarveSegment copies the
\* headers to pvSeg, and the store through the null pointer ends the process.
SendWorkerScratchNull ==
    /\ natPc = "w_gso"
    /\ natSeg < PDMNetGsoCalcSegmentCount(bufs[natReq.buf].gso,
                                          bufs[natReq.buf].cbUsed)
    /\ natPc' = "w_crash"
    /\ UNCHANGED << natState, natReq, natSeg, linkVars, hSlirpReqQueue, bufVars,
                    guestVars, inputs, wakeVars, drainVars, supVars, emtVars,
                    hostfwd, hostVars, cBufsMax, cPktsMax, cFdsMax, allocAsk,
                    pollVars, sockVars, tmVars, recvVars >>

\* slirp_input of a segment returns; RTMemFree(pvSeg); next iSeg.
SendWorkerGsoInputReturn ==
    /\ natPc = "w_gso_input"
    /\ cbPc = "none"
    /\ heapLive' = heapLive - 1
    /\ natSeg' = natSeg + 1
    /\ natPc' = "w_gso"
    /\ UNCHANGED << natState, natReq, linkVars, hSlirpReqQueue, bufs, guestVars,
                    inputs, wakeVars, drainVars, supVars, emtVars, hostfwd, hostVars, cBufsMax, cPktsMax, cFdsMax, allocAsk, pollVars, sockVars, tmVars,
                    recvVars >>

\* The end of drvNATSendWorker: drvNATFreeSgBuf; the request is dropped.
SendWorkerFree ==
    /\ natPc = "w_free"
    /\ drvNATFreeSgBuf(bufs, natReq.buf)
    /\ natReq' = NoReq
    /\ natSeg' = 0
    /\ natPc' = "process"
    /\ UNCHANGED << natState, linkVars, hSlirpReqQueue, guestVars, inputs,
                    wakeVars, drainVars, supVars, emtVars, hostfwd, hostVars, cBufsMax, cPktsMax, cFdsMax, allocAsk, pollVars, sockVars, tmVars, recvVars >>

\* drvNATNotifyLinkChangedWorker run from the queue; the request completes.
NatLinkWorker ==
    /\ natPc = "w_link"
    /\ drvNATNotifyLinkChangedWorker(natReq.link)
    /\ emtReq' = "done"
    /\ natReq' = NoReq
    /\ natPc' = "process"
    /\ UNCHANGED << natState, natSeg, hSlirpReqQueue, bufVars, guestVars, inputs,
                    wakeVars, drainVars, supVars, emtPc, emtArg, cEmtOps,
                    hostfwd, hostVars, cBufsMax, cPktsMax, cFdsMax, allocAsk, pollVars, sockVars, tmVars, recvVars >>

\* A string argument that is a null pointer, or a configuration value that
\* is not there.
NoString == "<NULL>"

\* The address strings the callers and the configuration use, and what
\* inet_aton makes of those it accepts.
IpStrings == {"0.0.0.0", "127.1", "10.0.2.15", "not-an-address"}
IpParsable == {"0.0.0.0", "127.1", "10.0.2.15"}
inet_aton(sz) ==
    CASE sz = "0.0.0.0" -> << 0, 0, 0, 0 >>
      [] sz = "127.1" -> << 127, 0, 0, 1 >>
      [] sz = "10.0.2.15" -> << 10, 0, 2, 15 >>

INADDR_ANY == << 0, 0, 0, 0 >>

\* pThis->GuestIP: no statement of the driver assigns it, so it keeps the zero
\* of the instance data.
GuestIP == << 0, 0, 0, 0 >>

\* if (p == NULL || inet_aton(p, &ip) == 0) ip.s_addr = def
AddrOrDefault(sz, def) ==
    IF sz = NoString \/ sz \notin IpParsable THEN def ELSE inet_aton(sz)

\* ApplyPortForward giving a guest address it cannot read the broadcast
\* address.
ApplyPortForward_NoDefault(who, r) ==
    [thread |-> who, rule |-> r,
     hostIp |-> AddrOrDefault(r.pHostIp, INADDR_ANY),
     guestIp |-> AddrOrDefault(r.pGuestIp, << 255, 255, 255, 255 >>)]

\* The rule drvNATNotifyApplyPortForwardCommand hands to the engine: the
\* command as it came, and the two addresses it passes.
ApplyPortForward(who, r) ==
    [thread |-> who, rule |-> r,
     hostIp |-> AddrOrDefault(r.pHostIp, INADDR_ANY),
     guestIp |-> AddrOrDefault(r.pGuestIp, GuestIP)]

\* drvNATConstructRedir for one child of "PortForwarding": GETIP_DEF gives
\* INADDR_ANY to BindIP and to GuestIP when the value is missing or
\* inet_aton refuses it; the rule goes to slirp_add_hostfwd.
ConstructRedir(cfg) ==
    [thread |-> "construct",
     rule |-> [fRemove |-> FALSE, fUdp |-> cfg.fUDP, pHostIp |-> cfg.BindIP,
               u16HostPort |-> cfg.HostPort, pGuestIp |-> cfg.GuestIP,
               u16GuestPort |-> cfg.GuestPort],
     hostIp |-> AddrOrDefault(cfg.BindIP, INADDR_ANY),
     guestIp |-> AddrOrDefault(cfg.GuestIP, INADDR_ANY)]

\* drvNATNotifyApplyPortForwardCommand run from the queue: it enters
\* slirp_add_hostfwd / slirp_remove_hostfwd.
NatPfWorker ==
    /\ natPc = "w_pf"
    /\ hostfwd' = Append(hostfwd, ApplyPortForward("NAT", natReq.rule))
    /\ natPc' = "w_pf_engine"
    /\ UNCHANGED << natState, natReq, natSeg, linkVars, hSlirpReqQueue, bufVars,
                    guestVars, inputs, wakeVars, drainVars, supVars, emtVars,
                    recvVars, hostVars, cBufsMax, cPktsMax, cFdsMax, allocAsk, pollVars, sockVars, tmVars >>

\* The engine call returns; the request completes.
NatPfWorkerReturn ==
    /\ natPc = "w_pf_engine"
    /\ emtReq' = "done"
    /\ natReq' = NoReq
    /\ natPc' = "process"
    /\ UNCHANGED << natState, natSeg, linkVars, hSlirpReqQueue, bufVars,
                    guestVars, inputs, wakeVars, drainVars, supVars, emtPc,
                    emtArg, cEmtOps, hostfwd, hostVars, cBufsMax, cPktsMax, cFdsMax, allocAsk, pollVars, sockVars, tmVars, recvVars >>


(* ------------------------------------------------------------------ *)
(* Management thread: link state, port forwarding, DNS, info           *)
(* ------------------------------------------------------------------ *)
Rules ==
    { [fRemove |-> FALSE, fUdp |-> FALSE, pHostIp |-> "0.0.0.0", u16HostPort |-> 2222,
       pGuestIp |-> "10.0.2.15", u16GuestPort |-> 22],
      [fRemove |-> TRUE, fUdp |-> FALSE, pHostIp |-> "0.0.0.0", u16HostPort |-> 2222,
       pGuestIp |-> "10.0.2.15", u16GuestPort |-> 22] }

\* Redirect commands and configured rules with each address string given,
\* missing, or not an address.
RulesAnyIp ==
    { [fRemove |-> fRemove, fUdp |-> FALSE, pHostIp |-> h, u16HostPort |-> 2222,
       pGuestIp |-> g, u16GuestPort |-> 22] :
          fRemove \in BOOLEAN,
          h \in {NoString, "127.1", "not-an-address"},
          g \in {NoString, "10.0.2.15", "not-an-address"} }

CfgRules ==
    { [fUDP |-> FALSE, BindIP |-> h, HostPort |-> 2222, GuestIP |-> g,
       GuestPort |-> 22] :
          h \in {NoString, "127.1", "not-an-address"},
          g \in {NoString, "10.0.2.15", "not-an-address"} }

NoArg == [op |-> "none", link |-> "-", rule |-> NoRule]

\* The management thread is inside an engine entry point.
EmtEnginePcs == {"rd_engine", "dns_domain", "dns_search", "info_conn", "info_neigh"}

emtUnchanged ==
    UNCHANGED << natState, natVars, linkVars, hSlirpReqQueue, bufVars, guestVars,
                 inputs, wakeVars, drainVars, supVars, hostfwd, hostVars, cBufsMax, cPktsMax, cFdsMax, allocAsk, pollVars, sockVars, tmVars, recvVars >>

\* drvNATNetworkUp_NotifyLinkChanged(s) is called.
NotifyLinkChangedCall ==
    /\ emtPc = "idle"
    /\ cEmtOps < MaxEmtOps
    /\ \E s \in LinkStates : emtArg' = [op |-> "link", link |-> s, rule |-> NoRule]
    /\ emtPc' = "lc_check"
    /\ cEmtOps' = cEmtOps + 1
    /\ UNCHANGED emtReq
    /\ emtUnchanged

\* if (pThis->pSlirpThread->enmState != PDMTHREADSTATE_RUNNING)
NotifyLinkChangedCheck ==
    /\ emtPc = "lc_check"
    /\ emtPc' = IF natState # "RUNNING" THEN "lc_store" ELSE "enqueue"
    /\ UNCHANGED << emtArg, emtReq, cEmtOps >>
    /\ emtUnchanged

\* pThis->enmLinkStateWant = enmLinkState; return
NotifyLinkChangedStore ==
    /\ emtPc = "lc_store"
    /\ enmLinkStateWant' = emtArg.link
    /\ emtPc' = "idle"
    /\ emtArg' = NoArg
    /\ UNCHANGED << natState, natVars, enmLinkState, hSlirpReqQueue, bufVars,
                    guestVars, inputs, wakeVars, drainVars, supVars, emtReq,
                    cEmtOps, hostfwd, hostVars, cBufsMax, cPktsMax, cFdsMax, allocAsk, pollVars, sockVars, tmVars, recvVars >>

\* drvNATNetworkNatConfigRedirect(rule) is called.
RedirectCall ==
    /\ emtPc = "idle"
    /\ cEmtOps < MaxEmtOps
    /\ \E r \in Rules : emtArg' = [op |-> "redirect", link |-> "-", rule |-> r]
    /\ emtPc' = "rd_check"
    /\ cEmtOps' = cEmtOps + 1
    /\ UNCHANGED emtReq
    /\ emtUnchanged

\* The same call with address strings of every kind.
RedirectCallAnyIp ==
    /\ emtPc = "idle"
    /\ cEmtOps < MaxEmtOps
    /\ \E r \in RulesAnyIp : emtArg' = [op |-> "redirect", link |-> "-", rule |-> r]
    /\ emtPc' = "rd_check"
    /\ cEmtOps' = cEmtOps + 1
    /\ UNCHANGED emtReq
    /\ emtUnchanged

\* if (enmState != RUNNING) apply directly, else go through the queue
RedirectCheck ==
    /\ emtPc = "rd_check"
    /\ emtPc' = IF natState # "RUNNING" THEN "rd_direct" ELSE "enqueue"
    /\ UNCHANGED << emtArg, emtReq, cEmtOps >>
    /\ emtUnchanged

\* drvNATNotifyApplyPortForwardCommand on the caller's thread: the engine
\* call is entered.
RedirectDirect ==
    /\ emtPc = "rd_direct"
    /\ hostfwd' = Append(hostfwd, ApplyPortForward("EMT", emtArg.rule))
    /\ emtPc' = "rd_engine"
    /\ UNCHANGED << natState, natVars, linkVars, hSlirpReqQueue, bufVars,
                    guestVars, inputs, wakeVars, drainVars, supVars, emtArg,
                    emtReq, cEmtOps, recvVars, hostVars, cBufsMax, cPktsMax, cFdsMax, allocAsk, pollVars, sockVars, tmVars >>

\* The direct engine call returns, and so does redirect_command.
RedirectDirectReturn ==
    /\ emtPc = "rd_engine"
    /\ emtPc' = "idle"
    /\ emtArg' = NoArg
    /\ UNCHANGED << emtReq, cEmtOps >>
    /\ emtUnchanged

\* RTReqQueueCallEx(hSlirpReqQueue, &pReq, 0, RTREQFLAGS_VOID, worker, ...):
\* the request is queued; a refused request makes the call return.
EmtEnqueue ==
    /\ emtPc = "enqueue"
    /\ \E fOk \in BOOLEAN :
         IF fOk /\ QueueHasRoom(hSlirpReqQueue)
         THEN /\ hSlirpReqQueue' = Append(hSlirpReqQueue,
                    IF emtArg.op = "link" THEN LinkReq(emtArg.link)
                    ELSE PfReq(emtArg.rule))
              /\ emtReq' = "queued"
              /\ emtPc' = "called"
              /\ UNCHANGED emtArg
         ELSE /\ emtPc' = "idle"
              /\ emtArg' = NoArg
              /\ UNCHANGED << hSlirpReqQueue, emtReq >>
    /\ UNCHANGED << natState, natVars, linkVars, bufVars, guestVars, inputs,
                    wakeVars, drainVars, supVars, cEmtOps, hostfwd, hostVars, cBufsMax, cPktsMax, cFdsMax, allocAsk, pollVars, sockVars, tmVars, recvVars >>

\* The status of RTReqQueueCallEx: VERR_TIMEOUT unless the request is
\* already complete.
EmtCalled ==
    /\ emtPc = "called"
    /\ IF emtReq = "done"
       THEN /\ emtPc' = "idle"
            /\ emtReq' = "none"
            /\ emtArg' = NoArg
       ELSE /\ emtPc' = "notify"
            /\ UNCHANGED << emtReq, emtArg >>
    /\ UNCHANGED cEmtOps
    /\ emtUnchanged

\* EmtNotify going on to RTReqWait without drvNATNotifyNATThread.
EmtNotify_NoWrite ==
    /\ emtPc = "notify"
    /\ UNCHANGED << pipe, cbWakeupNotifs >>
    /\ emtPc' = "wait"
    /\ UNCHANGED << natState, natVars, linkVars, hSlirpReqQueue, bufVars,
                    guestVars, inputs, drainVars, supVars, emtArg, emtReq,
                    cEmtOps, hostfwd, hostVars, cBufsMax, cPktsMax, cFdsMax, allocAsk, pollVars, sockVars, tmVars, recvVars, nPc >>

\* rc == VERR_TIMEOUT: drvNATNotifyNATThread, then RTReqWait
EmtNotify ==
    /\ emtPc = "notify"
    /\ drvNATNotifyNATThread
    /\ emtPc' = "wait"
    /\ UNCHANGED << natState, natVars, linkVars, hSlirpReqQueue, bufVars,
                    guestVars, inputs, drainVars, supVars, emtArg, emtReq,
                    cEmtOps, hostfwd, hostVars, cBufsMax, cPktsMax, cFdsMax, allocAsk, pollVars, sockVars, tmVars, recvVars, nPc >>

\* RTReqWait(pReq, RT_INDEFINITE_WAIT) returns once the request is complete.
EmtWaitReturn ==
    /\ emtPc = "wait"
    /\ emtReq = "done"
    /\ emtPc' = "idle"
    /\ emtReq' = "none"
    /\ emtArg' = NoArg
    /\ UNCHANGED cEmtOps
    /\ emtUnchanged

\* drvNATNotifyDnsChanged: slirp_set_vdomainname is entered.
NotifyDnsChangedCall ==
    /\ emtPc = "idle"
    /\ cEmtOps < MaxEmtOps
    /\ emtArg' = [op |-> "dns", link |-> "-", rule |-> NoRule]
    /\ emtPc' = "dns_domain"
    /\ cEmtOps' = cEmtOps + 1
    /\ UNCHANGED emtReq
    /\ emtUnchanged

\* slirp_set_vdomainname returns; slirp_set_vdnssearch is entered.
NotifyDnsChangedSearch ==
    /\ emtPc = "dns_domain"
    /\ emtPc' = "dns_search"
    /\ UNCHANGED << emtArg, emtReq, cEmtOps >>
    /\ emtUnchanged

\* slirp_set_vdnssearch returns, and so does notify_dns_changed.
NotifyDnsChangedReturn ==
    /\ emtPc = "dns_search"
    /\ emtPc' = "idle"
    /\ emtArg' = NoArg
    /\ UNCHANGED << emtReq, cEmtOps >>
    /\ emtUnchanged

\* drvNATInfo: slirp_connection_info is entered.
InfoCall ==
    /\ emtPc = "idle"
    /\ cEmtOps < MaxEmtOps
    /\ emtArg' = [op |-> "info", link |-> "-", rule |-> NoRule]
    /\ emtPc' = "info_conn"
    /\ cEmtOps' = cEmtOps + 1
    /\ UNCHANGED emtReq
    /\ emtUnchanged

\* slirp_connection_info returns; slirp_neighbor_info is entered.
InfoNeighbor ==
    /\ emtPc = "info_conn"
    /\ emtPc' = "info_neigh"
    /\ UNCHANGED << emtArg, emtReq, cEmtOps >>
    /\ emtUnchanged

\* slirp_neighbor_info returns, and so does the info handler.
InfoReturn ==
    /\ emtPc = "info_neigh"
    /\ emtPc' = "idle"
    /\ emtArg' = NoArg
    /\ UNCHANGED << emtReq, cEmtOps >>
    /\ emtUnchanged

(* ------------------------------------------------------------------ *)
(* Supervisor: the thread states and the wakeup procedure              *)
(* ------------------------------------------------------------------ *)
supUnchanged ==
    UNCHANGED << natVars, linkVars, hSlirpReqQueue, bufVars, guestVars, inputs,
                 drainVars, emtVars, hostfwd, hostVars, cBufsMax, cPktsMax, cFdsMax, allocAsk, pollVars, sockVars, tmVars, cPkts, hRecvReqQueue, cbPc,
                 cCallbacks, pktLive, recvPc, recvReq, DevAccessLock, delivered,
                 accepted, dropped, nPc >>

\* The NAT thread is outside its thread function: it is set RUNNING.
SupResume ==
    /\ supPc = "idle"
    /\ natState \in {"INITIALIZING", "SUSPENDED"}
    /\ natPc = "off"
    /\ natState' = "RUNNING"
    /\ UNCHANGED << supVars, wakeVars, recvState, EventRecv >>
    /\ supUnchanged

\* Suspend: the state leaves RUNNING, then the wakeup procedure runs.
SupSuspend ==
    /\ supPc = "idle"
    /\ natState = "RUNNING"
    /\ cSuspends < MaxSuspends
    /\ natState' = "SUSPENDED"
    /\ cSuspends' = cSuspends + 1
    /\ supPc' = "wakeup"
    /\ UNCHANGED << wakeVars, recvState, EventRecv >>
    /\ supUnchanged

\* Terminate: the state becomes TERMINATING, then the wakeup procedure runs.
SupTerminate ==
    /\ supPc = "idle"
    /\ natState # "TERMINATING"
    /\ natState' = "TERMINATING"
    /\ supPc' = "wakeup"
    /\ UNCHANGED << cSuspends, wakeVars, recvState, EventRecv >>
    /\ supUnchanged

\* drvNATAsyncIoWakeup: drvNATNotifyNATThread
SupWakeup ==
    /\ supPc = "wakeup"
    /\ drvNATNotifyNATThread
    /\ supPc' = "idle"
    /\ UNCHANGED << natState, recvState, EventRecv, cSuspends >>
    /\ supUnchanged

\* The receive thread is outside its thread function: it is set RUNNING.
RecvSupResume ==
    /\ recvState \in {"INITIALIZING", "SUSPENDED"}
    /\ recvPc = "off"
    /\ recvState' = "RUNNING"
    /\ UNCHANGED << natState, supVars, wakeVars, EventRecv >>
    /\ supUnchanged

\* The receive thread is suspended; drvNATRecvWakeup signals the event.
RecvSupSuspend ==
    /\ recvState = "RUNNING"
    /\ cSuspends < MaxSuspends
    /\ recvState' = "SUSPENDED"
    /\ cSuspends' = cSuspends + 1
    /\ EventRecv' = TRUE
    /\ UNCHANGED << natState, supPc, wakeVars >>
    /\ supUnchanged

\* The receive thread is terminated; drvNATRecvWakeup signals the event.
RecvSupTerminate ==
    /\ recvState # "TERMINATING"
    /\ recvState' = "TERMINATING"
    /\ EventRecv' = TRUE
    /\ UNCHANGED << natState, supVars, wakeVars >>
    /\ supUnchanged

(* ------------------------------------------------------------------ *)
(* drvNATDestruct                                                       *)
(* ------------------------------------------------------------------ *)
\* The statements of drvNATDestruct in program order; supPc names the one
\* that runs next.  RTPipeClose is compiled on the non-Windows build only.
DestructSteps ==
    << "d_cleanup", "d_free_state", "d_slirp_queue", "d_recv_queue",
       "d_event", "d_dev_lock", "d_xmit_lock", "d_pipe", "destructed" >>

DestructPcs == { DestructSteps[i] : i \in 1..Len(DestructSteps) }

\* The position of a statement in drvNATDestruct.
DestructIndex(pc) == CHOOSE i \in 1..Len(DestructSteps) : DestructSteps[i] = pc

\* The statement after pc: the Windows build has no pipe to close.
DestructAfter(pc) ==
    LET next == DestructSteps[DestructIndex(pc) + 1]
    IN IF fWindows /\ next = "d_pipe" THEN "destructed" ELSE next

\* PDM calls drvNATDestruct once both threads have terminated.
drvNATDestruct ==
    /\ supPc = "idle"
    /\ natPc = "terminated"
    /\ recvPc = "terminated"
    /\ supPc' = "d_cleanup"
    /\ UNCHANGED << natState, cSuspends, wakeVars, recvState, EventRecv >>
    /\ supUnchanged

\* One statement of drvNATDestruct: slirp_cleanup; RTMemFree of polls and
\* pNATState; RTReqQueueDestroy(hSlirpReqQueue); RTReqQueueDestroy(
\* hRecvReqQueue); RTSemEventDestroy(EventRecv); RTCritSectDelete of
\* DevAccessLock and of XmitLock; RTPipeClose of both ends.  No statement
\* runs a pending request.
DestructStep ==
    /\ supPc \in DestructPcs \ {"destructed"}
    /\ supPc' = DestructAfter(supPc)
    /\ UNCHANGED << natState, cSuspends, wakeVars, recvState, EventRecv >>
    /\ supUnchanged

(* ------------------------------------------------------------------ *)
(* Receive path: drvNAT_SendPacketCb on the NAT thread                 *)
(* ------------------------------------------------------------------ *)
\* Engine entry points from which the engine may call send_packet.
CallbackPcs == {"pollfds_poll", "w_input", "w_gso_input"}

cbUnchanged ==
    UNCHANGED << natState, natVars, linkVars, hSlirpReqQueue, bufVars, guestVars,
                 inputs, drainVars, supVars, emtVars, hostfwd, hostVars, cBufsMax, cPktsMax, cFdsMax, allocAsk, pollVars, sockVars, tmVars, recvPc, recvReq,
                 recvState, DevAccessLock, delivered, dropped, nPc >>

\* The callback is entered: RTMemAlloc(cb), the copy, and the test of the
\* NAT thread state.  A failed allocation and a thread that is not RUNNING
\* both return -1.
SendPacketCbEnter ==
    /\ natPc \in CallbackPcs
    /\ cbPc = "none"
    /\ cCallbacks < cPktsMax
    /\ cCallbacks' = cCallbacks + 1
    /\ \E fMemOk \in BOOLEAN :
         IF ~fMemOk
         THEN UNCHANGED << pktLive, cbPc >>
         ELSE /\ pktLive' = pktLive + 1
              /\ cbPc' = IF natState # "RUNNING" THEN "none" ELSE "inc"
    /\ UNCHANGED << cPkts, hRecvReqQueue, EventRecv, wakeVars, accepted >>
    /\ cbUnchanged

\* ASMAtomicIncU32(&pThis->cPkts)
SendPacketCbInc ==
    /\ cbPc = "inc"
    /\ cPkts' = cPkts + 1
    /\ cbPc' = "enqueue"
    /\ UNCHANGED << cCallbacks, pktLive, hRecvReqQueue, EventRecv, wakeVars,
                    accepted >>
    /\ cbUnchanged

\* RTReqQueueCallEx(hRecvReqQueue, NO_WAIT, drvNATRecvWorker, pNewBuf, cb);
\* the status is only asserted, so the callback goes on either way.
SendPacketCbEnqueue ==
    /\ cbPc = "enqueue"
    /\ \E fOk \in BOOLEAN :
         IF fOk /\ QueueHasRoom(hRecvReqQueue)
         THEN hRecvReqQueue' = Append(hRecvReqQueue, cCallbacks)
         ELSE UNCHANGED hRecvReqQueue
    /\ cbPc' = "signal"
    /\ UNCHANGED << cCallbacks, pktLive, cPkts, EventRecv, wakeVars, accepted >>
    /\ cbUnchanged

\* drvNATRecvWakeup: RTSemEventSignal(EventRecv)
SendPacketCbSignal ==
    /\ cbPc = "signal"
    /\ EventRecv' = TRUE
    /\ cbPc' = "notify"
    /\ UNCHANGED << cCallbacks, pktLive, cPkts, hRecvReqQueue, wakeVars,
                    accepted >>
    /\ cbUnchanged

\* drvNATNotifyNATThread; the callback returns cb.
SendPacketCbNotify ==
    /\ cbPc = "notify"
    /\ drvNATNotifyNATThread
    /\ cbPc' = "none"
    /\ accepted' = accepted \cup {cCallbacks}
    /\ UNCHANGED << cCallbacks, pktLive, cPkts, hRecvReqQueue, EventRecv >>
    /\ cbUnchanged

(* ------------------------------------------------------------------ *)
(* Receive thread: drvNATRecv and drvNATRecvWorker                     *)
(* ------------------------------------------------------------------ *)
rxUnchanged ==
    UNCHANGED << natState, natVars, linkVars, hSlirpReqQueue, bufVars, guestVars,
                 inputs, drainVars, supVars, emtVars, hostfwd, hostVars, cBufsMax, cPktsMax, cFdsMax, allocAsk, pollVars, sockVars, tmVars, cbPc, cCallbacks,
                 recvState, accepted, nPc >>

\* First call of the thread function, in INITIALIZING: returns at once.
RecvInitCall ==
    /\ recvPc = "unborn"
    /\ recvState = "INITIALIZING"
    /\ recvPc' = "off"
    /\ UNCHANGED << cPkts, hRecvReqQueue, pktLive, recvReq, EventRecv,
                    DevAccessLock, delivered, wakeVars, dropped >>
    /\ rxUnchanged

\* The thread function is called while the thread is RUNNING.
RecvEnter ==
    /\ recvPc = "off"
    /\ recvState = "RUNNING"
    /\ recvPc' = "loop"
    /\ UNCHANGED << cPkts, hRecvReqQueue, pktLive, recvReq, EventRecv,
                    DevAccessLock, delivered, wakeVars, dropped >>
    /\ rxUnchanged

\* The thread is told to terminate while outside the thread function.
RecvExitOff ==
    /\ recvPc \in {"off", "unborn"}
    /\ recvState = "TERMINATING"
    /\ recvPc' = "terminated"
    /\ UNCHANGED << cPkts, hRecvReqQueue, pktLive, recvReq, EventRecv,
                    DevAccessLock, delivered, wakeVars, dropped >>
    /\ rxUnchanged

\* while (pThread->enmState == PDMTHREADSTATE_RUNNING)
RecvLoopTest ==
    /\ recvPc = "loop"
    /\ recvPc' = IF recvState = "RUNNING" THEN "process"
                 ELSE IF recvState = "TERMINATING" THEN "terminated" ELSE "off"
    /\ UNCHANGED << cPkts, hRecvReqQueue, pktLive, recvReq, EventRecv,
                    DevAccessLock, delivered, wakeVars, dropped >>
    /\ rxUnchanged

\* RTReqQueueProcess(hRecvReqQueue, 0): the oldest request, or none left.
RecvProcessNext ==
    /\ recvPc = "process"
    /\ IF hRecvReqQueue = << >>
       THEN /\ recvPc' = "test_pkts"
            /\ UNCHANGED << recvReq, hRecvReqQueue >>
       ELSE /\ recvReq' = Head(hRecvReqQueue)
            /\ hRecvReqQueue' = Tail(hRecvReqQueue)
            /\ recvPc' = "w_enter"
    /\ UNCHANGED << cPkts, pktLive, EventRecv, DevAccessLock, delivered, wakeVars, dropped >>
    /\ rxUnchanged

\* drvNATRecvWorker: RTCritSectEnter(&pThis->DevAccessLock)
RecvWorkerEnter ==
    /\ recvPc = "w_enter"
    /\ ~DevAccessLock
    /\ DevAccessLock' = TRUE
    /\ recvPc' = "w_wait"
    /\ UNCHANGED << cPkts, hRecvReqQueue, pktLive, recvReq, EventRecv, delivered,
                    wakeVars, dropped >>
    /\ rxUnchanged

\* pfnWaitReceiveAvail returns; on success pfnReceive and RTMemFree(pBuf).
RecvWorkerWaitReturn ==
    /\ recvPc = "w_wait"
    /\ \E rc \in {"VINF_SUCCESS", "VERR_TIMEOUT", "VERR_INTERRUPTED", "VERR_OTHER"} :
         IF rc = "VINF_SUCCESS"
         THEN /\ delivered' = Append(delivered, recvReq)
              /\ pktLive' = pktLive - 1
              /\ UNCHANGED dropped
         ELSE /\ dropped' = dropped \cup {recvReq}
              /\ UNCHANGED << delivered, pktLive >>
    /\ recvPc' = "w_leave"
    /\ UNCHANGED << cPkts, hRecvReqQueue, recvReq, EventRecv, DevAccessLock,
                    wakeVars >>
    /\ rxUnchanged

\* RTCritSectLeave(&pThis->DevAccessLock)
RecvWorkerLeave ==
    /\ recvPc = "w_leave"
    /\ DevAccessLock' = FALSE
    /\ recvPc' = "w_dec"
    /\ UNCHANGED << cPkts, hRecvReqQueue, pktLive, recvReq, EventRecv, delivered,
                    wakeVars, dropped >>
    /\ rxUnchanged

\* ASMAtomicDecU32(&pThis->cPkts)
RecvWorkerDec ==
    /\ recvPc = "w_dec"
    /\ cPkts' = cPkts - 1
    /\ recvPc' = "w_notify"
    /\ UNCHANGED << hRecvReqQueue, pktLive, recvReq, EventRecv, DevAccessLock,
                    delivered, wakeVars, dropped >>
    /\ rxUnchanged

\* drvNATNotifyNATThread; the worker returns.
RecvWorkerNotify ==
    /\ recvPc = "w_notify"
    /\ drvNATNotifyNATThread
    /\ recvPc' = "process"
    /\ recvReq' = 0
    /\ UNCHANGED << cPkts, hRecvReqQueue, pktLive, EventRecv, DevAccessLock,
                    delivered, dropped >>
    /\ rxUnchanged

\* if (ASMAtomicReadU32(&pThis->cPkts) == 0) wait, else loop
RecvTestPkts ==
    /\ recvPc = "test_pkts"
    /\ recvPc' = IF cPkts = 0 THEN "wait" ELSE "loop"
    /\ UNCHANGED << cPkts, hRecvReqQueue, pktLive, recvReq, EventRecv,
                    DevAccessLock, delivered, wakeVars, dropped >>
    /\ rxUnchanged

\* RTSemEventWait(EventRecv, RT_INDEFINITE_WAIT) returns
RecvWaitReturn ==
    /\ recvPc = "wait"
    /\ EventRecv
    /\ EventRecv' = FALSE
    /\ recvPc' = "loop"
    /\ UNCHANGED << cPkts, hRecvReqQueue, pktLive, recvReq, DevAccessLock,
                    delivered, wakeVars, dropped >>
    /\ rxUnchanged

(* ------------------------------------------------------------------ *)
(* Initial state: after drvNATConstruct                                 *)
(* ------------------------------------------------------------------ *)
InstanceInit ==
    /\ natState = "INITIALIZING"
    /\ natPc = "unborn"
    /\ natReq = NoReq
    /\ natSeg = 0
    /\ enmLinkState = "UP"
    /\ enmLinkStateWant = "UP"
    /\ hSlirpReqQueue = << >>
    /\ bufs = << >>
    /\ heapLive = 0
    /\ XmitLock = NoThread
    /\ cBufsAtBegin = 0
    /\ nsock = 0
    /\ uPollCap = PollCapInit
    /\ polls0 = ZeroPollfd
    /\ gPc = [g \in GuestThreads |-> "idle"]
    /\ gBuf = [g \in GuestThreads |-> 0]
    /\ gRc = [g \in GuestThreads |-> "-"]
    /\ inputs = << >>
    /\ cbWakeupNotifs = 0
    /\ pipe = 0
    /\ revents0 = FALSE
    /\ drainCb = 0
    /\ supPc = "idle"
    /\ cSuspends = 0
    /\ emtPc = "idle"
    /\ emtArg = NoArg
    /\ emtReq = "none"
    /\ cEmtOps = 0
    /\ cPkts = 0
    /\ hRecvReqQueue = << >>
    /\ cbPc = "none"
    /\ cCallbacks = 0
    /\ pktLive = 0
    /\ recvPc = "unborn"
    /\ recvReq = 0
    /\ recvState = "INITIALIZING"
    /\ EventRecv = FALSE
    /\ DevAccessLock = FALSE
    /\ delivered = << >>
    /\ accepted = {}
    /\ dropped = {}
    /\ nPc = [n \in Notifiers |-> "idle"]
    /\ evHost = << >>
    /\ evBack = << >>
    /\ cChangedFDs = 0
    /\ uTimeout = DRVNAT_DEFAULT_TIMEOUT
    /\ nowMs = << 0, 1000 >>
    /\ timers = [t \in TimerIds |-> NoTimer]
    /\ pTimerHead = NULL
    /\ pCurrent = NULL
    /\ currTime = Zero
    /\ cTimerOps = 0
    /\ tmUaf = {}

\* The instance of a POSIX build whose engine asks for no poll events.
Init ==
    /\ InstanceInit
    /\ fWindows = FALSE
    /\ evSlirp = {}
    /\ cBufsMax = MaxBufs
    /\ cPktsMax = MaxPkts
    /\ cFdsMax = 1
    /\ allocAsk = AllocRequests
    /\ hostfwd = << >>

\* The instance of either build.
InitHosts ==
    /\ InstanceInit
    /\ fWindows \in BOOLEAN
    /\ evSlirp = {}
    /\ cBufsMax = MaxBufs
    /\ cPktsMax = MaxPkts
    /\ cFdsMax = 1
    /\ allocAsk = AllocRequests
    /\ hostfwd = << >>

\* The instance of either build, with the flags the engine asks for.
InitFlags ==
    /\ InstanceInit
    /\ fWindows \in BOOLEAN
    /\ evSlirp \in SUBSET SlirpFlags
    /\ cBufsMax = MaxBufs
    /\ cPktsMax = MaxPkts
    /\ cFdsMax = 1
    /\ allocAsk = AllocRequests
    /\ hostfwd = << >>

\* The instance of a POSIX build with traffic in one direction: the device
\* sends one frame more than elsewhere and the engine has nothing for the
\* guest, or the engine has its packets for the guest and the device sends
\* nothing.
InitOrder ==
    /\ InstanceInit
    /\ fWindows = FALSE
    /\ evSlirp = {}
    /\ \/ cBufsMax = MaxBufs + 1 /\ cPktsMax = 0
       \/ cBufsMax = 0 /\ cPktsMax = MaxPkts
    /\ cFdsMax = 1
    /\ allocAsk = AllocRequests
    /\ hostfwd = << >>

\* The instance whose device port asks for one size, ordinary or GSO, in all
\* its alloc calls: every size up to DRVNAT_MAXFRAMESIZE.
InitAlloc ==
    /\ InstanceInit
    /\ fWindows = FALSE
    /\ evSlirp = {}
    /\ cBufsMax = MaxBufs
    /\ cPktsMax = 0
    /\ cFdsMax = 1
    /\ \E cbMin \in 0..DRVNAT_MAXFRAMESIZE, gso \in {NoGso, GsoSmall} :
           allocAsk = { << cbMin, gso >> }
    /\ hostfwd = << >>

\* The instance whose device port sends frames of one kind: a GSO frame of
\* two or three segments, one with a descriptor the worker finds invalid, one
\* with the largest segments alloc accepts, one alloc refuses, or an ordinary
\* frame.
GsoRequests ==
    { << 2854, GsoSmall >>, << 2855, GsoSmall >>, << 2854, GsoBad >>,
      << 32712, GsoLimit >>, << 32714, GsoHuge >>, << 60, NoGso >> }

InitGso ==
    /\ InstanceInit
    /\ fWindows = FALSE
    /\ evSlirp = {}
    /\ cBufsMax = MaxBufs
    /\ cPktsMax = 0
    /\ cFdsMax = 1
    /\ \E req \in GsoRequests : allocAsk = { req }
    /\ hostfwd = << >>

\* The instance whose configuration had one rule under "PortForwarding".
InitRedir ==
    /\ InstanceInit
    /\ fWindows = FALSE
    /\ evSlirp = {}
    /\ cBufsMax = 0
    /\ cPktsMax = 0
    /\ cFdsMax = 1
    /\ allocAsk = AllocRequests
    /\ \E cfg \in CfgRules : hostfwd = << ConstructRedir(cfg) >>

\* The instance of either build with an engine that registers many
\* descriptors in a round.
InitPoll ==
    /\ InstanceInit
    /\ fWindows \in BOOLEAN
    /\ evSlirp = {}
    /\ cBufsMax = 0
    /\ cPktsMax = 0
    /\ cFdsMax = MaxFds
    /\ allocAsk = AllocRequests
    /\ hostfwd = << >>

(* ------------------------------------------------------------------ *)
(* Next-state relations                                                *)
(* ------------------------------------------------------------------ *)
NatThread ==
    \/ NatInitCall \/ NatEnter \/ NatExitOff \/ NatLinkCheck \/ NatLoopTest
    \/ NatFillReturn \/ NatPollReturn \/ NatPollfdsPollReturn
    \/ NatDrainRead \/ NatDrainPipe \/ NatDrainSub
    \/ NatProcessNext \/ NatCheckTimeout

NatSendWorker ==
    \/ drvNATSendWorker \/ SendWorkerInputReturn \/ SendWorkerGsoSegment
    \/ SendWorkerGsoInputReturn \/ SendWorkerFree

NatPfWorkers == NatPfWorker \/ NatPfWorkerReturn

Guest(g) ==
    \/ drvNATNetworkUp_BeginXmit(g) \/ drvNATNetworkUp_EndXmit(g)
    \/ drvNATNetworkUp_AllocBuf(g) \/ DeviceFill(g) \/ drvNATNetworkUp_FreeBuf(g)
    \/ SendBufCheck(g) \/ SendBufEnqueue(g) \/ SendBufNotify(g)

EmtLink ==
    \/ NotifyLinkChangedCall \/ NotifyLinkChangedCheck \/ NotifyLinkChangedStore

EmtRedirect ==
    \/ RedirectCall \/ RedirectCheck \/ RedirectDirect \/ RedirectDirectReturn

EmtAwait ==
    \/ EmtEnqueue \/ EmtCalled \/ EmtNotify \/ EmtWaitReturn

EmtEngine ==
    \/ NotifyDnsChangedCall \/ NotifyDnsChangedSearch \/ NotifyDnsChangedReturn
    \/ InfoCall \/ InfoNeighbor \/ InfoReturn

Supervisor ==
    \/ SupResume \/ SupSuspend \/ SupTerminate \/ SupWakeup

Callback ==
    \/ SendPacketCbEnter \/ SendPacketCbInc \/ SendPacketCbEnqueue
    \/ SendPacketCbSignal \/ SendPacketCbNotify

Notifier(n) == NotifierWrite(n) \/ NotifierInc(n)

RecvSupervisor == RecvSupResume \/ RecvSupSuspend \/ RecvSupTerminate

RecvThread ==
    \/ RecvInitCall \/ RecvEnter \/ RecvExitOff
    \/ RecvLoopTest \/ RecvProcessNext \/ RecvWorkerEnter \/ RecvWorkerWaitReturn
    \/ RecvWorkerLeave \/ RecvWorkerDec \/ RecvWorkerNotify
    \/ RecvTestPkts \/ RecvWaitReturn

\* The whole driver.
Next ==
    \/ NatThread \/ NatSendWorker \/ NatLinkWorker \/ NatPfWorkers
    \/ (\E g \in GuestThreads : Guest(g))
    \/ EmtLink \/ EmtRedirect \/ EmtAwait \/ EmtEngine
    \/ Supervisor \/ Callback \/ RecvSupervisor \/ RecvThread
    \/ (\E n \in Notifiers : Notifier(n))

Spec == Init /\ [][Next]_vars

\* The transmit path: the guest device threads, the NAT thread with the send
\* worker, and the supervisor.
NextXmit ==
    \/ NatThread \/ NatSendWorker
    \/ (\E g \in GuestThreads : Guest(g))
    \/ Supervisor

SpecXmit == Init /\ [][NextXmit]_vars

\* The device port's calls on one device thread, with the NAT thread set
\* RUNNING at some moment.
NextAlloc ==
    \/ NatInitCall \/ SupResume
    \/ drvNATNetworkUp_BeginXmit("g1") \/ drvNATNetworkUp_AllocBuf("g1")
    \/ DeviceFill("g1") \/ drvNATNetworkUp_FreeBuf("g1")
    \/ drvNATNetworkUp_EndXmit("g1")

SpecAlloc == InitAlloc /\ [][NextAlloc]_vars

\* The transmit path of one device thread with GSO frames, link changes from
\* the management thread, and the scratch allocation of the segmentation
\* loop failing or not.
NextGso ==
    \/ NatThread \/ NatSendWorker \/ SendWorkerScratchNull \/ NatLinkWorker
    \/ Guest("g1")
    \/ EmtLink \/ EmtAwait \/ Supervisor

SpecGso == InitGso /\ [][NextGso]_vars

\* The same with the NAT thread scheduled again and again.
SpecGsoFair ==
    SpecGso /\ WF_vars(NatThread \/ NatSendWorker \/ SendWorkerScratchNull \/ NatLinkWorker)

\* Port forwarding: the configured rule and redirect commands at runtime,
\* applied on the caller's thread or by the NAT thread.
NextRedir ==
    \/ NatThread \/ NatPfWorkers
    \/ RedirectCallAnyIp \/ RedirectCheck \/ RedirectDirect \/ RedirectDirectReturn
    \/ EmtAwait \/ Supervisor

SpecRedir == InitRedir /\ [][NextRedir]_vars

\* Teardown: the transmit path, the termination of both threads and the
\* destructor.
Destruct == drvNATDestruct \/ DestructStep

NextTeardown ==
    \/ NatThread \/ NatSendWorker
    \/ Guest("g1")
    \/ Supervisor \/ RecvSupTerminate \/ RecvExitOff
    \/ Destruct

SpecTeardown == InitHosts /\ [][NextTeardown]_vars

\* The transmit path of one guest device thread under link-state
\* notifications from the management thread.
NextLink ==
    \/ NatThread \/ NatSendWorker \/ NatLinkWorker
    \/ Guest("g1")
    \/ EmtLink \/ EmtAwait \/ Supervisor

SpecLink == Init /\ [][NextLink]_vars

\* The engine's callers: the NAT thread and the management thread.
NextEngine ==
    \/ NatThread \/ NatLinkWorker \/ NatPfWorkers
    \/ EmtLink \/ EmtRedirect \/ EmtAwait \/ EmtEngine \/ Supervisor

SpecEngine == Init /\ [][NextEngine]_vars

\* The same with the NAT thread and the management thread scheduled again and
\* again.
SpecEngineFair ==
    /\ SpecEngine
    /\ WF_vars(NatThread \/ NatLinkWorker \/ NatPfWorkers)
    /\ WF_vars(EmtLink \/ EmtRedirect \/ EmtAwait \/ EmtEngine)

\* The callers that put requests in the engine queue from other threads (a
\* device thread and the management thread) and the NAT thread serving them.
NextNotify ==
    \/ NatThread \/ NatSendWorker \/ NatLinkWorker \/ NatPfWorkers
    \/ Guest("g1")
    \/ EmtLink \/ EmtRedirect \/ EmtAwait \/ Supervisor

SpecNotify == Init /\ [][NextNotify]_vars

\* The receive path: the engine's send-to-guest callback on the NAT thread and
\* the receive thread.
NextRecv ==
    \/ NatThread \/ Callback \/ Supervisor \/ RecvSupervisor \/ RecvThread

SpecRecv == Init /\ [][NextRecv]_vars

\* The wakeup channel: notify() callers, the NAT thread's drain and the
\* supervisor.
NextWake ==
    \/ NatThread \/ Supervisor
    \/ (\E n \in Notifiers : Notifier(n))

SpecWake == Init /\ [][NextWake]_vars

\* The wakeup channel of either build with reads of it that fail.
NextDrain ==
    \/ NatThread \/ NatDrainPipeFails \/ Supervisor
    \/ (\E n \in Notifiers : Notifier(n))

SpecDrain == InitHosts /\ [][NextDrain]_vars

\* The receive path with every thread scheduled again and again: a thread that
\* can take a step eventually takes one.
SpecRecvFair ==
    /\ Init /\ [][NextRecv]_vars
    /\ WF_vars(NatThread) /\ WF_vars(Callback) /\ WF_vars(RecvThread)
    /\ WF_vars(Supervisor)

\* The timer list: the NAT thread's rounds on either build, the walks of the
\* list, the engine's timer callbacks and the clock.
NatTimers ==
    \/ NatUpdateTimeoutStep \/ NatCheckTimeoutStep \/ NatTimerHandlerReturn
    \/ NatCheckTimeoutNext

EngineTimers ==
    \/ EngineSetTimeout \/ drvNAT_TimerNewCb \/ drvNAT_TimerModCb
    \/ drvNAT_TimerFreeCb

NextTimer ==
    \/ NatThread \/ NatTimers \/ EngineTimers \/ ClockTick \/ Supervisor

SpecTimer == InitHosts /\ [][NextTimer]_vars

\* The poll loop with its timers, the NAT thread scheduled again and again.
SpecTimerFair == SpecTimer /\ WF_vars(NatThread \/ NatTimers)

\* The poll flags: the NAT thread's rounds on either build with one poll
\* entry of the engine.
PollCallbacks == drvNAT_AddPollCb \/ drvNAT_GetREventsCb

NextFlags ==
    \/ NatThread \/ PollCallbacks \/ Supervisor

SpecFlags == InitFlags /\ [][NextFlags]_vars

\* The poll set: the NAT thread's entries and rounds on either build with an
\* engine that registers up to MaxFds descriptors in a round.
NextPoll ==
    \/ NatThread \/ drvNAT_AddPollCb \/ Supervisor

SpecPoll == InitPoll /\ [][NextPoll]_vars

\* Traffic in either direction from power-on to termination, without
\* suspensions: one guest device thread, the NAT thread with the send worker
\* and the send-to-guest callback, and the receive thread.
NextOrder ==
    \/ NatThread \/ NatSendWorker \/ Guest("g1")
    \/ Callback \/ RecvThread
    \/ SupResume \/ SupTerminate \/ SupWakeup
    \/ RecvSupResume \/ RecvSupTerminate

SpecOrder == InitOrder /\ [][NextOrder]_vars

(* ------------------------------------------------------------------ *)
(* Properties                                                          *)
(* ------------------------------------------------------------------ *)
\* Buffer record b was released exactly once: its segment memory, its GSO
\* copy if it has one, and its descriptor.
ReleasedOnce(b) ==
    /\ b.descFrees = 1
    /\ b.segFrees = 1
    /\ b.userFrees = (IF b.gso.present THEN 1 ELSE 0)

NeverReleasedTwice(b) ==
    b.descFrees <= 1 /\ b.segFrees <= 1 /\ b.userFrees <= 1

NotReleased(b) == b.descFrees = 0 /\ b.segFrees = 0 /\ b.userFrees = 0

\* C1: every buffer passed to send is released exactly once: never twice, and
\* once the NAT thread has terminated and no send call still holds the buffer,
\* not zero times either.
C1_SentBufferReleasedExactlyOnce ==
    \A i \in 1..Len(bufs) :
        bufs[i].fSent =>
            /\ NeverReleasedTwice(bufs[i])
            /\ (natPc = "terminated" /\ \A g \in GuestThreads : gBuf[g] # i)
                   => ReleasedOnce(bufs[i])

\* C2: the NAT thread and the management thread are never inside engine
\* entry points at the same time.
C2_NoConcurrentEngineCalls ==
    ~(natPc \in NatEnginePcs /\ emtPc \in EmtEnginePcs)

\* C3: when the NAT thread has left its poll loop for good, no enqueued
\* request is left unexecuted and no caller is left waiting for its request.
C3_RequestsRunBeforeLoopExit ==
    natPc = "terminated" =>
        /\ hSlirpReqQueue = << >>
        /\ ~(emtPc = "wait" /\ emtReq # "done")

AllocLeavesNothing(g) ==
    bufs' = bufs /\ heapLive' = heapLive /\ gBuf'[g] = gBuf[g] /\ gPc'[g] = gPc[g]

\* C5 as stated: an alloc that finds the NAT thread not RUNNING returns
\* NET_DOWN, otherwise one with min_bytes >= 16384 returns INVALID_PARAMETER,
\* with or without a GSO descriptor, and in both cases nothing stays allocated.
C5_AllocRefusesByMinBytes ==
    [][\A g \in GuestThreads :
         gPc[g] = "xmit" =>
           \A req \in AllocRequests, fail \in AllocFailures :
             AllocBufCall(g, req, fail) =>
             /\ natState # "RUNNING"
                    => gRc'[g] = "VERR_NET_DOWN" /\ AllocLeavesNothing(g)
             /\ (natState = "RUNNING" /\ req[1] >= DRVNAT_MAXFRAMESIZE)
                    => gRc'[g] = "VERR_INVALID_PARAMETER" /\ AllocLeavesNothing(g)]_vars

\* C5 amended: an alloc that finds the NAT thread not RUNNING returns NET_DOWN;
\* otherwise, unless the descriptor allocation fails (NO_MEMORY), an ordinary
\* request with min_bytes >= 16384 and a GSO request with
\* cbHdrsTotal + cbMaxSeg >= 16384 return INVALID_PARAMETER, and a GSO request
\* with smaller segments is not refused for its min_bytes; every refused call
\* returns no buffer and leaves nothing allocated.
C5_AllocRefusesBySegmentSize ==
    [][\A g \in GuestThreads :
         (gPc[g] = "xmit" /\ drvNATNetworkUp_AllocBuf(g)) =>
             LET rc == gRc'[g]
             IN /\ natState # "RUNNING" => rc = "VERR_NET_DOWN"
                /\ natState = "RUNNING" => rc # "VERR_NET_DOWN"
                /\ rc # "VINF_SUCCESS" => AllocLeavesNothing(g)
                /\ (natState = "RUNNING" /\ rc # "VERR_NO_MEMORY") =>
                     \A req \in AllocRequests, fail \in AllocFailures :
                       AllocBufCall(g, req, fail) =>
                         LET cbMin == req[1]
                             gso == req[2]
                         IN /\ (~gso.present /\ cbMin >= DRVNAT_MAXFRAMESIZE)
                                   => rc = "VERR_INVALID_PARAMETER"
                            /\ (~gso.present /\ cbMin < DRVNAT_MAXFRAMESIZE)
                                   => rc \in {"VINF_SUCCESS", "VERR_TRY_AGAIN"}
                            /\ (gso.present
                                /\ gso.cbHdrsTotal + gso.cbMaxSeg >= DRVNAT_MAXFRAMESIZE)
                                   => rc = "VERR_INVALID_PARAMETER"
                            /\ (gso.present
                                /\ gso.cbHdrsTotal + gso.cbMaxSeg < DRVNAT_MAXFRAMESIZE)
                                   => rc \in {"VINF_SUCCESS", "VERR_TRY_AGAIN"}
                            /\ rc = "VINF_SUCCESS" =>
                                 /\ heapLive' = heapLive + (IF gso.present THEN 3 ELSE 2)
                                 /\ gBuf'[g] = Len(bufs')]_vars

\* C5, witness: a GSO request of min_bytes >= 16384 was granted.
C5_Witness ==
    \E g \in GuestThreads :
        /\ gPc[g] = "have_buf"
        /\ gRc[g] = "VINF_SUCCESS"
        /\ bufs[gBuf[g]].gso.present
        /\ bufs[gBuf[g]].cbMin >= DRVNAT_MAXFRAMESIZE

\* C6 as stated: no engine input call is made for a buffer whose alloc
\* request had min_bytes >= 16384.
C6_NoInputForOversizedRequest ==
    \A k \in 1..Len(inputs) :
        bufs[inputs[k][1]].cbMin < DRVNAT_MAXFRAMESIZE

\* C6 amended: no engine input call is made for an ordinary buffer whose
\* request had min_bytes >= 16384, nor for a GSO buffer whose
\* cbHdrsTotal + cbMaxSeg >= 16384; a GSO buffer of min_bytes >= 16384 reaches
\* the engine in segments of at most cbHdrsTotal + cbMaxSeg bytes.
C6_NoInputForOversizedSegment ==
    \A k \in 1..Len(inputs) :
        LET b == bufs[inputs[k][1]]
        IN IF b.gso.present
           THEN /\ b.gso.cbHdrsTotal + b.gso.cbMaxSeg < DRVNAT_MAXFRAMESIZE
                /\ inputs[k][2] <= b.gso.cbHdrsTotal + b.gso.cbMaxSeg
           ELSE b.cbMin < DRVNAT_MAXFRAMESIZE

\* C6, witness: the engine received a segment of a GSO buffer whose request
\* had min_bytes >= 16384.
C6_Witness ==
    \E k \in 1..Len(inputs) :
        /\ bufs[inputs[k][1]].gso.present
        /\ bufs[inputs[k][1]].cbMin >= DRVNAT_MAXFRAMESIZE

\* An alloc step of g changes nothing of the instance but the status returned
\* to g.
AllocLeavesInstance(g) ==
    /\ AllocLeavesNothing(g)
    /\ UNCHANGED << natState, natVars, linkVars, hSlirpReqQueue, XmitLock, cBufsAtBegin,
                    inputs, wakeVars, drainVars, supVars, emtVars, hostfwd, hostVars, cBufsMax, cPktsMax, cFdsMax, allocAsk, pollVars, sockVars, tmVars,
                    recvVars >>

C8_XmitLockExclusive ==
    /\ \A g \in GuestThreads :
         /\ gPc[g] = "idle" => ENABLED drvNATNetworkUp_BeginXmit(g)
         /\ (gPc[g] # "idle") <=> (XmitLock = g)
         /\ (gPc[g] = "idle" /\ gRc[g] = "VERR_TRY_AGAIN") => XmitLock # g
    /\ Cardinality({g \in GuestThreads : gPc[g] # "idle"}) <= 1

\* C8, witness: a thread was refused with TRY_AGAIN while another holds the
\* lock in the middle of its sequence.
C8_Witness ==
    /\ XmitLock = "g1"
    /\ gPc["g1"] = "have_buf"
    /\ gPc["g2"] = "idle"
    /\ gRc["g2"] = "VERR_TRY_AGAIN"

\* The receive thread is inside drvNATRecvWorker.
RecvWorkerPcs == {"w_enter", "w_wait", "w_leave", "w_dec", "w_notify"}

\* C9: in_flight_packets is 0 whenever the receive queue is empty, no receive
\* worker is executing and no send-to-guest callback is under way.
C9_InFlightZeroWhenIdle ==
    (hRecvReqQueue = << >> /\ recvPc \notin RecvWorkerPcs /\ cbPc = "none")
        => cPkts = 0

\* C10: wakeup_bytes_outstanding equals the bytes held by the wakeup channel.
C10_CounterEqualsBytesHeld == cbWakeupNotifs = pipe

\* C11: at the end of every poll round in which index 0 signalled readable,
\* wakeup_bytes_outstanding is 0 and the readable indication of index 0 is
\* cleared, whatever notify() calls were made before or during the round.
C11_DrainLeavesNothing ==
    [][(NatCheckTimeout /\ revents0) =>
           (cbWakeupNotifs' = 0 /\ ~revents0')]_vars

\* C12: the handler of a timer the engine holds is entered only in a firing
\* walk whose clock value, read at the walk's entry, is not before the expiry T
\* that timer_mod last asked for, and only if no handler call has used up that
\* timer_mod yet.
C12_HandlerOnlyWhenDue ==
    [][(natPc = "ct_walk" /\ natPc' = "ct_handler"
           /\ timers[pCurrent].st = "live") =>
          /\ timers[pCurrent].T # Zero
          /\ ~I64Less(currTime, timers[pCurrent].T)]_vars

\* C13: on either build a round of the polling loop ends only out of
\* drvNAT_CheckTimeout, the walk that fires the timers that are due, whatever
\* the poll wait returned.
C13_EveryRoundEndsWithFiringWalk ==
    [][(natPc' = "loop" /\ natPc \notin {"loop", "link_check"}) =>
          natPc \in {"check_timeout", "ct_walk"}]_vars

\* A timer the engine holds and has armed.
Armed(t) == timers[t].st = "live" /\ timers[t].T # Zero

\* C14: when drvNAT_UpdateTimeout is through with a list in which every node
\* is a timer the engine holds, the timeout handed to poll() is at most
\* max(0, T - now) for every armed timer's expiry T, where now is the clock
\* value read at entry; a walk that meets no armed timer keeps the timeout.
C14_TimeoutClampedToEarliestExpiry ==
    [][/\ (natPc = "ut_walk" /\ natPc' = "poll_wait"
             /\ \A t \in Range(ListChain) : timers[t].st = "live") =>
            \A t \in Range(ListChain) :
                Armed(t) =>
                    IF I64Less(currTime, timers[t].T)
                    THEN ~I64Less(I64Sub(timers[t].T, currTime),
                                  OfTimeout(uTimeout))
                    ELSE uTimeout = 0
       /\ (natPc = "ut_walk" /\ natPc' = "ut_walk"
             /\ \A t \in TimerIds : ~Armed(t) /\ ~IsFreed(t)) =>
            uTimeout' = uTimeout]_vars

\* C15: a node that drvNAT_TimerFreeCb has given back to the allocator is not
\* met by a walk from pTimerHead along the next links.
C15_FreedNodeUnlinked ==
    \A t \in TimerIds : IsFreed(t) => t \notin Range(ListChain)

\* C16: when the handler that the firing walk entered returns, the node the
\* walk reads next (pCurrent->next) has not been freed, whatever timer
\* callbacks the handler made; stated for walks that met no freed node before.
C16_WalkNeverReadsFreedNode ==
    [][(natPc = "ct_next" /\ natPc' = "ct_walk" /\ "check" \notin tmUaf) =>
          ~IsFreed(pCurrent)]_vars

\* What the two translations make of the engine flags S on a Windows build.
WindowsRoundTrip(S) ==
    (S \cap {"SLIRP_POLL_IN", "SLIRP_POLL_OUT"})
        \cup OrIf("SLIRP_POLL_PRI" \in S, {"SLIRP_POLL_IN"})

C18_WorkerAlwaysCleansUp ==
    [][/\ RecvWorkerWaitReturn => pktLive' = pktLive - 1
       /\ RecvWorkerLeave => ~DevAccessLock'
       /\ RecvWorkerDec => cPkts' = cPkts - 1
       /\ RecvWorkerNotify => (PipeWriteOk => pipe' = pipe + 1)]_vars

\* C19: a send-to-guest callback that finds the NAT thread not RUNNING returns
\* at once (-1), enqueues nothing, leaves in_flight_packets unchanged and
\* leaves no packet copy allocated.
C19_CallbackDropsWhenNotRunning ==
    [][(SendPacketCbEnter /\ natState # "RUNNING") =>
           /\ cbPc' = "none"
           /\ hRecvReqQueue' = hRecvReqQueue
           /\ cPkts' = cPkts
           /\ pktLive' = pktLive]_vars

\* C20: every packet for which the callback returned its length is eventually
\* passed to the device port's receive, unless the receive thread leaves
\* RUNNING or the packet's pfnWaitReceiveAvail fails.
C20_AcceptedPacketsReachReceive ==
    \A p \in 1..MaxPkts :
        (p \in accepted)
            ~> (p \in Range(delivered) \/ p \in dropped \/ recvState # "RUNNING")

\* The sequence q never goes back: what comes later is not smaller.
NonDecreasing(q) == \A i, j \in 1..Len(q) : i < j => q[i] <= q[j]

\* The buffers of the slirp_input calls made so far, in the order of the calls.
InputBufs == [i \in 1..Len(inputs) |-> inputs[i][1]]

StaysRunning == natState = "RUNNING" /\ cSuspends = 0

\* drvNATNetworkUp_NotifyLinkChanged returns from its queued branch.
LinkChangedReturns ==
    /\ emtArg.op = "link"
    /\ emtPc \in {"enqueue", "called", "wait"}
    /\ emtPc' = "idle"

\* C22: when notify_link_changed(s) runs while the NAT thread is RUNNING and
\* stays RUNNING, then at its return the current and the desired link state
\* both equal s (the link worker has run on the NAT thread).
C22_LinkChangeAppliedOnReturn ==
    [][ (LinkChangedReturns /\ StaysRunning)
          => /\ enmLinkState' = emtArg.link
             /\ enmLinkStateWant' = emtArg.link ]_vars

\* The NAT thread starts a poll round.
PollRoundStarts == natPc = "loop" /\ natState = "RUNNING" /\ natPc' = "fill"

\* C23: a notify_link_changed(s) that found the NAT thread not RUNNING
\* stores only the desired state, and the thread's next entry in RUNNING makes
\* the current state equal to the desired one before it polls: the store
\* leaves enmLinkState alone, and every poll round starts with the current
\* link state equal to the desired one.
C23_DesiredAppliedBeforePolling ==
    [][ /\ (emtPc = "lc_store" /\ emtPc' = "idle")
            => /\ enmLinkStateWant' = emtArg.link
               /\ enmLinkState' = enmLinkState
        /\ PollRoundStarts => enmLinkState = enmLinkStateWant ]_vars

\* drvNATNetworkNatConfigRedirect returns VINF_SUCCESS.
RedirectReturns ==
    /\ emtArg.op = "redirect"
    /\ emtPc \in {"rd_engine", "called", "wait"}
    /\ emtPc' = "idle"

\* The engine call the redirect in progress is entitled to, once.
RedirectApplication ==
    IF emtPc = "rd_direct"
    THEN ApplyPortForward("EMT", emtArg.rule)
    ELSE ApplyPortForward("NAT", emtArg.rule)

\* C24: redirect_command applies its rule exactly once with the arguments it
\* was given, on the caller's thread if it found the NAT thread not RUNNING
\* and on the NAT thread through the engine queue otherwise; in the second
\* case it returns only after the engine call has completed, and the request
\* is served within the poll round, so the NAT thread never leaves its loop
\* with the request still pending.
C24_RedirectAppliedOnceAndPromptly ==
    [][ /\ hostfwd' # hostfwd
            => /\ emtArg.op = "redirect"
               /\ \/ emtPc = "rd_direct"
                  \/ emtPc \in {"called", "notify", "wait"} /\ emtReq = "queued"
               /\ hostfwd' = Append(hostfwd, RedirectApplication)
        /\ RedirectReturns
            => /\ hostfwd # << >>
               /\ hostfwd[Len(hostfwd)].rule = emtArg.rule
               /\ hostfwd[Len(hostfwd)].thread =
                      (IF emtPc = "rd_engine" THEN "EMT" ELSE "NAT")
               /\ emtPc # "rd_engine" => emtReq = "done"
        /\ (natPc = "loop" /\ natPc' \in {"off", "terminated"})
            => ~(emtArg.op = "redirect" /\ emtReq = "queued") ]_vars

(* ------------------------------------------------------------------ *)
(* Teardown                                                            *)
(* ------------------------------------------------------------------ *)
\* C25: teardown cleans the engine up first, destroys each request queue
\* only once it is empty (every pending request was executed), then destroys
\* the receive event, then deletes both locks, then closes the wakeup
\* channel.
C25_TeardownOrderAndDrain ==
    [][ (supPc \in DestructPcs /\ supPc' # supPc)
          => /\ DestructIndex(supPc') > DestructIndex(supPc)
             /\ supPc = "d_slirp_queue" => hSlirpReqQueue = << >>
             /\ supPc = "d_recv_queue" => hRecvReqQueue = << >> ]_vars

(* ------------------------------------------------------------------ *)
(* Buffers at end_xmit                                                 *)
(* ------------------------------------------------------------------ *)
\* The buffers allocated since the begin_xmit in progress.
AllocatedInXmit == (cBufsAtBegin + 1)..Len(bufs)

\* The descriptor of buffer b is allocated and not yet freed.
Live(b) == b.descFrees = 0

\* Buffer i belongs to a send request that is pending or being executed.
OwnedBySendRequest(i) ==
    \/ SendReq(i) \in Range(hSlirpReqQueue)
    \/ natReq = SendReq(i)

OutsideLoop == natPc \in {"unborn", "off", "terminated"}

\* C27: once the supervisor has set TERMINATING and its notify() has
\* returned, the NAT thread eventually leaves its poll loop, wherever in the
\* round it was.
C27_TerminateEndsLoop ==
    (natState = "TERMINATING" /\ supPc = "idle") ~> OutsideLoop

(* ------------------------------------------------------------------ *)
(* The poll set                                                        *)
(* ------------------------------------------------------------------ *)
\* The flags the round tests in polls[0].revents before it drains the wakeup
\* channel: POLLRDNORM | POLLPRI | POLLRDBAND, and POLLIN on Windows.
WakeupReadable ==
    IF fWindows THEN POLLIN(fWindows) ELSE POLLRDNORM \cup POLLPRI \cup POLLRDBAND

\* C28: every round starts with nsock = 1, a descriptor the engine registers
\* during the round gets an index of 1 or more and leaves polls[0] alone, and
\* whenever the thread enters the host poll wait, polls[0] holds the wakeup
\* channel's readable end with the readable-event flags; on both builds and
\* on every entry of the thread function.
C28_WakeupEntryFirst ==
    [][ /\ PollRoundStarts => nsock' = 1
        /\ (natPc = "fill" /\ nsock' # nsock)
              => /\ nsock >= 1
                 /\ nsock' = nsock + 1
                 /\ polls0' = polls0
        /\ natPc' = "poll_wait"
              => /\ polls0'.fd = "wakeup"
                 /\ polls0'.events = WakeupReadable
                 /\ nsock' >= 1 ]_vars

\* A poll wait after a re-entry of the thread function, with the array grown
\* and as many descriptors registered as the engine has.
C28_Witness ==
    /\ natPc = "poll_wait"
    /\ cSuspends >= 1
    /\ uPollCap > PollCapInit
    /\ nsock = MaxFds + 1
    /\ polls0.fd = "wakeup"

(* ------------------------------------------------------------------ *)
(* The steps of a round                                                *)
(* ------------------------------------------------------------------ *)
\* The step of the round the NAT thread is in: 1 engine fill, 2 timer clamp,
\* 3 host poll wait, 4 engine pollfds_poll, 5 drain of the wakeup channel,
\* 6 drain of the engine request queue, 7 firing of expired timers; 0 when it
\* is between rounds or outside the loop.
RoundStep(pc) ==
    CASE pc = "fill" -> 1
      [] pc = "ut_walk" -> 2
      [] pc = "poll_wait" -> 3
      [] pc = "pollfds_poll" -> 4
      [] pc \in {"drain_read", "drain_pipe", "drain_sub"} -> 5
      [] pc \in {"process", "w_send", "w_input", "w_gso", "w_gso_input",
                 "w_free", "w_link", "w_pf", "w_pf_engine"} -> 6
      [] pc \in {"check_timeout", "ct_walk", "ct_handler", "ct_next"} -> 7
      [] OTHER -> 0

\* C29: in every round, on both builds, the steps come in the order engine
\* fill, timer clamp, host poll wait, engine pollfds_poll, drain of the wakeup
\* channel if polls[0] is readable, drain of the request queue, firing of the
\* expired timers, each once: the thread passes from a step to the next one
\* only (the clamp of an empty timer list and the drain of a channel that is
\* not readable take no step of their own), and the round ends out of the
\* firing of the timers.
C29_RoundStepsInOrder ==
    [][ (RoundStep(natPc) # 0 /\ natPc' # "tm_hang"
            /\ RoundStep(natPc') # RoundStep(natPc))
          => \/ RoundStep(natPc) = 1 /\ RoundStep(natPc') = 2
             \/ RoundStep(natPc) = 1 /\ RoundStep(natPc') = 3 /\ pTimerHead = NULL
             \/ RoundStep(natPc) = 2 /\ RoundStep(natPc') = 3
             \/ RoundStep(natPc) = 3 /\ RoundStep(natPc') = 4
             \/ RoundStep(natPc) = 4 /\ RoundStep(natPc') = 5 /\ revents0
             \/ RoundStep(natPc) = 4 /\ RoundStep(natPc') = 6 /\ ~revents0
             \/ RoundStep(natPc) = 5 /\ RoundStep(natPc') = 6
             \/ RoundStep(natPc) = 6 /\ RoundStep(natPc') = 7
             \/ RoundStep(natPc) = 7 /\ natPc' = "loop" ]_vars

(* ------------------------------------------------------------------ *)
(* Enqueue, then notify                                                *)
(* ------------------------------------------------------------------ *)
\* A caller on another thread has put a request in the engine queue and has
\* not got to its drvNATNotifyNATThread yet.
CallerBeforeNotify ==
    \/ \E g \in GuestThreads : gPc[g] = "send_notify"
    \/ emtPc \in {"called", "notify"}

\* send, after a successful enqueue, calls drvNATNotifyNATThread before it
\* returns.
SendNotifies ==
    \A g \in GuestThreads :
        (gPc[g] = "send_notify" /\ gPc'[g] # "send_notify")
            => drvNATNotifyNATThread

\* The management caller, in drvNATNotifyNATThread, makes the call and then
\* blocks in RTReqWait.
EmtNotifies ==
    (emtPc = "notify" /\ emtPc' # "notify")
        => drvNATNotifyNATThread /\ emtPc' = "wait"

AddPollFailed == AddPollCb("socket", evSlirp, FALSE)

\* C31: after any sequence of drvNAT_AddPollCb calls and round resets nsock is
\* below uPollCap (every written index is inside the array), uPollCap changes
\* only by doubling, and a call whose RTMemRealloc fails returns -1 and leaves
\* nsock, uPollCap and the entries as they were.
C31_PollSetWithinCapacity ==
    [][ /\ nsock < uPollCap /\ nsock' < uPollCap'
        /\ uPollCap' # uPollCap => uPollCap' = 2 * uPollCap /\ AddPollGrows
        /\ AddPollGrows =>
              /\ AddPollFailed.idx = -1
              /\ AddPollFailed.nsock = nsock
              /\ AddPollFailed.uPollCap = uPollCap
              /\ AddPollFailed.polls0 = polls0
        /\ (natPc = "fill" /\ natPc' = "fill" /\ nsock' = nsock)
              => uPollCap' = uPollCap /\ polls0' = polls0 ]_vars

\* The array has grown once, in a round that filled the first array.
C31_Witness == uPollCap = 2 * PollCapInit /\ nsock >= PollCapInit

(* ------------------------------------------------------------------ *)
(* The size of an allocated buffer                                     *)
(* ------------------------------------------------------------------ *)
\* The smallest multiple of SgAlign that is not below cb.
SmallestMultiple(cb) ==
    CHOOSE m \in {SgAlign * k : k \in 0..(DRVNAT_MAXFRAMESIZE \div SgAlign)} :
        m >= cb /\ m - SgAlign < cb

\* C32: for every min_bytes below 16384, ordinary or GSO, the buffer a
\* successful alloc returns has a segment size and a bytes_available equal to
\* the smallest multiple of 128 that is >= min_bytes, and bytes_used = 0.
C32_AllocRoundsUpTo128 ==
    \A g \in GuestThreads :
        (gPc[g] = "have_buf" /\ bufs[gBuf[g]].cbMin < DRVNAT_MAXFRAMESIZE)
            => /\ gRc[g] = "VINF_SUCCESS"
               /\ bufs[gBuf[g]].cbSeg = SmallestMultiple(bufs[gBuf[g]].cbMin)
               /\ bufs[gBuf[g]].cbAvailable = SmallestMultiple(bufs[gBuf[g]].cbMin)
               /\ bufs[gBuf[g]].cbUsed = 0

\* A GSO request of the largest size below 16384 has been granted.
C32_Witness ==
    \E g \in GuestThreads :
        /\ gPc[g] = "have_buf"
        /\ bufs[gBuf[g]].gso.present
        /\ bufs[gBuf[g]].cbMin = DRVNAT_MAXFRAMESIZE - 1
        /\ bufs[gBuf[g]].cbSeg = DRVNAT_MAXFRAMESIZE

(* ------------------------------------------------------------------ *)
(* The expiry timer_mod stores                                         *)
(* ------------------------------------------------------------------ *)
\* C33: for every 64-bit expiry e passed to timer_mod, the timer afterwards
\* holds exactly e as its expiry, and timer_mod does not change the order of
\* the timer list.
C33_ModStoresFullExpiry ==
    [][ drvNAT_TimerModCb =>
          /\ \A t \in TimerIds :
                timers'[t] # timers[t] => timers'[t].uTimeExpire = timers'[t].T
          /\ pTimerHead' = pTimerHead
          /\ \A t \in TimerIds : timers'[t].next = timers[t].next ]_vars

\* The half of C33 about the list: timer_mod relinks nothing.
ModKeepsListOrder ==
    [][ drvNAT_TimerModCb =>
          /\ pTimerHead' = pTimerHead
          /\ \A t \in TimerIds : timers'[t].next = timers[t].next ]_vars

(* ------------------------------------------------------------------ *)
(* GSO segmentation                                                    *)
(* ------------------------------------------------------------------ *)
\* The lengths of the slirp_input calls made for buffer id, in call order.
InputLengths(id) ==
    LET calls == SelectSeq(inputs, LAMBDA c : c[1] = id)
    IN [i \in 1..Len(calls) |-> calls[i][2]]

\* What the segments of the GSO frame in buffer record b should measure: the
\* headers plus cbMaxSeg payload bytes, the last one the headers plus what is
\* left.
SegmentLengths(b) ==
    LET cbPayloadAll == b.cbUsed - b.gso.cbHdrsTotal
        cSegs == IF cbPayloadAll <= 0 \/ b.gso.cbMaxSeg <= 0 THEN 0
                 ELSE CHOOSE n \in 1..cbPayloadAll :
                          /\ n * b.gso.cbMaxSeg >= cbPayloadAll
                          /\ (n - 1) * b.gso.cbMaxSeg < cbPayloadAll
    IN [i \in 1..cSegs |->
          b.gso.cbHdrsTotal + Min(b.gso.cbMaxSeg,
                                  cbPayloadAll - (i - 1) * b.gso.cbMaxSeg)]

IsPrefix(p, q) == Len(p) <= Len(q) /\ \A i \in 1..Len(p) : p[i] = q[i]

\* The send worker is in its segmentation loop.
InGsoLoop == natPc \in {"w_gso", "w_gso_input"}

\* The worker has left the loop with every segment handed to the engine.
GsoLoopDone ==
    IF natPc = "w_free" /\ natReq.fn = "send"
    THEN /\ InputLengths(natReq.buf) = SegmentLengths(bufs[natReq.buf])
         /\ (bufs[natReq.buf].gso = GsoSmall /\ bufs[natReq.buf].cbUsed = 2854)
                => InputLengths(natReq.buf) = << 1454, 1454 >>
    ELSE FALSE

\* C34: for a GSO buffer with a valid descriptor and link UP the send worker
\* calls slirp_input once per segment, in segment order, with the length of
\* the carved headers plus the segment's payload, and frees each scratch
\* buffer after its call; for 54 header bytes, cbMaxSeg = 1400 and 2800
\* payload bytes these are 2 calls of 1454 bytes each.
C34_GsoOneInputPerSegment ==
    /\ [](InGsoLoop =>
            /\ IsPrefix(InputLengths(natReq.buf), SegmentLengths(bufs[natReq.buf]))
            /\ Len(InputLengths(natReq.buf))
                   = natSeg + (IF natPc = "w_gso_input" THEN 1 ELSE 0))
    /\ [][natPc = "w_gso_input" /\ natPc' # "w_gso_input"
             => heapLive' = heapLive - 1]_vars
    /\ InGsoLoop ~> GsoLoopDone

\* The same without the last part: what holds of the calls the worker makes.
GsoInputsAreSegments ==
    /\ [](InGsoLoop =>
            /\ IsPrefix(InputLengths(natReq.buf), SegmentLengths(bufs[natReq.buf]))
            /\ Len(InputLengths(natReq.buf))
                   = natSeg + (IF natPc = "w_gso_input" THEN 1 ELSE 0))
    /\ [](natPc = "w_free" /\ bufs[natReq.buf].gso = GsoSmall
             /\ bufs[natReq.buf].cbUsed = 2854 /\ natSeg > 0
            => InputLengths(natReq.buf) = << 1454, 1454 >>)

(* ------------------------------------------------------------------ *)
(* Default addresses of a port-forwarding rule                         *)
(* ------------------------------------------------------------------ *)
\* The address string is missing or is not an address.
Unusable(sz) == sz = NoString \/ sz \notin IpParsable

C36_NoInputWhileLinkDown ==
    [][ /\ inputs' # inputs => enmLinkState = "UP"
        /\ (natPc = "w_send" /\ enmLinkState # "UP" /\ natPc' # natPc)
              => natPc' = "w_free" /\ inputs' = inputs
        /\ (natPc = "w_free" /\ natPc' # natPc)
              => /\ Live(bufs[natReq.buf])
                 /\ ~Live(bufs'[natReq.buf])
                 /\ bufs'[natReq.buf].descFrees = 1 ]_vars

\* The worker is about to release a GSO frame with a valid descriptor that it
\* did not hand to the engine because the link is DOWN.
C36_Witness ==
    /\ natPc = "w_free"
    /\ natReq.fn = "send"
    /\ enmLinkState = "DOWN"
    /\ PDMNetGsoIsValid(bufs[natReq.buf].gso, bufs[natReq.buf].cbUsed)
    /\ inputs = << >>

(* ------------------------------------------------------------------ *)
(* A link notification racing with the thread's entry                  *)
(* ------------------------------------------------------------------ *)
\* notify_link_changed(s) is in progress.
Notifying(s) == emtArg.op = "link" /\ emtArg.link = s

\* notify_link_changed(s) found the NAT thread not RUNNING and is about to
\* store the desired state.
Memorizing(s) == Notifying(s) /\ emtPc = "lc_store"

\* C37: a link-state notification is never lost: however the call
\* notify_link_changed(s) that memorizes s interleaves with the NAT thread's
\* entry into RUNNING and its check of the desired state, once the thread is
\* RUNNING for good and no other notification arrives the current link state
\* eventually equals s.
C37_LinkNotificationNotLost ==
    \A s \in LinkStates :
        (<>Memorizing(s) /\ <>[](natState = "RUNNING")) => <>[](enmLinkState = s)

(* ------------------------------------------------------------------ *)
(* The wakeup counter does not underflow                               *)
(* ------------------------------------------------------------------ *)
\* C38: cbWakeupNotifs never underflows: at every drain the number of bytes
\* subtracted is at most the counter's current value, and the counter is
\* incremented only for a notify() whose write succeeded, under any
\* interleaving of notify() callers with the NAT thread's read of the
\* counter, read of the channel and subtraction.
C38_WakeupCounterNoUnderflow ==
    [][ /\ (natPc = "drain_sub" /\ natPc' # natPc)
              => /\ ~U64Less(cbWakeupNotifs, drainCb)
                 /\ cbWakeupNotifs' >= 0
        /\ cbWakeupNotifs' = cbWakeupNotifs + 1
              => \/ \E n \in Notifiers : nPc[n] = "inc" /\ nPc'[n] = "idle"
                 \/ pipe' = pipe + 1 ]_vars

(* ------------------------------------------------------------------ *)
(* Segments fit the scratch buffer                                     *)
(* ------------------------------------------------------------------ *)
\* The send worker takes a GSO frame whose descriptor is not valid.
InvalidGsoAtWorker ==
    /\ natPc = "w_send"
    /\ SendWorkerLinkUp
    /\ bufs[natReq.buf].gso.present
    /\ ~PDMNetGsoIsValid(bufs[natReq.buf].gso, bufs[natReq.buf].cbUsed)

\* C39: every segment the send worker carves from a GSO buffer that alloc
\* accepted measures (header bytes + payload bytes) less than
\* DRVNAT_MAXFRAMESIZE, the size of the scratch buffer it is copied to; and
\* for a GSO buffer with an invalid descriptor the worker makes no
\* slirp_input call and still releases the buffer.
C39_SegmentsFitScratch ==
    /\ [](\A i \in 1..Len(inputs) :
              bufs[inputs[i][1]].gso.present
                  => inputs[i][2] < DRVNAT_MAXFRAMESIZE)
    /\ [][InvalidGsoAtWorker /\ natPc' # natPc
              => natPc' = "w_free" /\ inputs' = inputs]_vars
    /\ [][natPc = "w_free" /\ natPc' # natPc
              => /\ ~bufs'[natReq.buf].fOwner1
                 /\ bufs'[natReq.buf].segFrees = 1
                 /\ bufs'[natReq.buf].descFrees = 1
                 /\ bufs[natReq.buf].gso.present
                        => bufs'[natReq.buf].userFrees = 1]_vars

\* A segment of the largest size alloc lets through is in the engine.
C39_Witness ==
    /\ natPc = "w_gso_input"
    /\ bufs[natReq.buf].gso = GsoLimit
    /\ inputs[Len(inputs)] = << natReq.buf, DRVNAT_MAXFRAMESIZE - 1 >>

\* A GSO frame with an invalid descriptor has been released without a call.
InvalidGsoReleased ==
    \E id \in DOMAIN bufs :
        /\ bufs[id].gso = GsoBad
        /\ bufs[id].fSent
        /\ bufs[id].descFrees = 1
        /\ InputLengths(id) = << >>

(* ------------------------------------------------------------------ *)
(* The drain and the poll wait of the same round                       *)
(* ------------------------------------------------------------------ *)
\* The NAT thread goes from the test of polls[0].revents into the drain.
DrainEntered == natPc # "drain_read" /\ natPc' = "drain_read"

\* What the poll wait of the round that is making that step returned. The
\* Windows loop makes the test right after WSAPoll, the other hosts' loop
\* after slirp_pollfds_poll.
RoundChangedFDs == IF fWindows THEN cChangedFDs' ELSE cChangedFDs

\* C40: the NAT thread attempts to drain the wakeup channel only in a round
\* whose poll wait itself reported index 0 readable; in a round whose poll
\* wait failed or was interrupted, and so did not rewrite revents, the
\* readable indication left from an earlier round does not cause a drain.
C40_DrainOnlyAfterGoodPoll ==
    [][DrainEntered => RoundChangedFDs > 0]_vars

====
